---- MODULE Spec2Model ----
(***************************************************************************)
(* Verification model of the benova-backend services: the conversation     *)
(* store, the Chatwoot integration service, the multi-agent orchestrator   *)
(* and the vector-index auto-recovery.  Every subsystem has its own        *)
(* specification over the shared variables; the variables of the other     *)
(* subsystems stay at their initial values.                                *)
(***************************************************************************)
EXTENDS Integers, Sequences, FiniteSets, TLC

(***************************************************************************)
(* Bounds of the model and program constants.                              *)
(***************************************************************************)
\* ConversationManager.__init__(max_messages = 10)
max_messages == 10
\* Number of add_message calls explored by SpecConv (must exceed the window).
MaxAdds == 12

Users == {"u1", "u2"}
\* Roles passed to add_message; "system" stands for any role that is neither
\* "user" nor "assistant".
Roles == {"user", "assistant", "system"}
\* REDIS_TTL["processed_message"], the ex= argument of the marker's set
PROCESSED_MESSAGE_TTL == 3600
\* REDIS_TTL["bot_status"], the argument of expire
BOT_STATUS_TTL == 86400
\* Number of marker lifetimes the clock runs through.
MaxPeriods == 1
\* number of message events the inbound pipeline processes
MaxEvents == 2
\* number of chunk records in a loaded knowledge base
MaxChunks == 2
\* number of health-check intervals the clock runs through
MaxIntervals == 1
\* VECTORSTORE_HEALTH_CHECK_INTERVAL, seconds
health_check_interval == 30

Conversations == {7, 8}
\* Message ids of webhook events; 0 stands for a missing id.
MessageIds == {0, 42, 43}
\* Conversation statuses of the platform, one unknown value, a wrongly cased
\* one, and "none" for an event that carries no status.
Statuses == {"open", "pending", "resolved", "snoozed", "archived", "Open", "none"}

\* Store outcomes of one add_message call: no failure, a failure while the
\* history handle is created, a failure of the append, a failure while the
\* window is read or cleared, a failure while the tail is written back.
AddFaults == {"none", "create", "append", "window", "readd"}

VARIABLES
    \* ---- conversation store ----
    chat_history,        \* user id -> stored messages (Redis list chat_history:<id>)
    message_histories,   \* user ids with a cached history handle
    added,               \* history variable: turns accepted since the history was last empty
    faulted,             \* history variable: users whose record a store failure has touched
    lastAdd,             \* the last add_message call and its result
    \* ---- clock ----
    now,                 \* seconds since the start
    \* ---- Chatwoot service: de-duplication and bot status ----
    processed_message,   \* <<conversation id, message id>> -> expiry time of the marker, 0 when absent
    lastDedup,           \* the last is_message_already_processed call and its result
    marked,              \* history variable: when the pair was last reported not-processed and marked, -1 if never
    bot_status,          \* conversation id -> the bot_status:<id> hash, NoRecord when absent
    lastBot,             \* the last should_bot_respond / update_bot_status call
    \* ---- multi-agent orchestrator ----
    lastResponse,        \* the last get_response call, what it met and what it returned
    \* ---- Chatwoot service: inbound pipeline ----
    lastHook,            \* the last process_incoming_message call, its event and its result
    outbox,              \* the messages send_message has delivered to Chatwoot
    events,              \* number of message events processed
    \* ---- knowledge-base index and auto-recovery ----
    index,               \* the index definition: whether it exists and its num_docs
    stored,              \* number of chunk records under the index namespace
    auto_recovery_enabled, \* VECTORSTORE_AUTO_RECOVERY
    health_cache,        \* RedisVectorAutoRecovery.health_cache
    recovery_lock,       \* holder of _recovery_lock, "free" when released
    threads,             \* thread -> its operation, position and local values
    rebuilds,            \* history variable: the drops and creations of the index definition
    \* ---- document manager ----
    documents,           \* the document:<id> records: [doc_id, content, chunk_count]
    vectors,             \* the chunk records <index_name>:<key>: [key, doc_id, metadata]
    vectorstore_version, \* the counter under the key vectorstore_version, 0 when absent
    doc_changes,         \* the doc_change:<id>:<time> records written
    lastDoc,             \* the last DocumentManager call and what it returned
    \* ---- schedule agent helpers ----
    lastSchedule,        \* the last call of a Schedule agent function and its result
    \* ---- HTTP layer ----
    lastRequest,         \* the last request of a route and its response
    \* ---- concurrent requests ----
    deliveries,          \* request -> position in is_message_already_processed and result
    writers,             \* request -> position in add_message and local values
    \* ---- recovery manager, called by one thread ----
    lastHealth,          \* the last call of the recovery manager and what it returned
    \* ---- protection middleware ----
    protection,          \* wrappers on add_texts of the index service, _original_methods
    lastWrite,           \* the last add_texts call on the index service and what it did
    \* ---- start-up thread ----
    startup              \* position and counters of delayed_initialization

convVars == <<chat_history, message_histories, added, faulted, lastAdd>>
dedupVars == <<processed_message, lastDedup, marked>>
botVars == <<bot_status, lastBot>>
orchVars == <<lastResponse>>
hookVars == <<lastHook, outbox, events>>
recVars == <<index, stored, auto_recovery_enabled, health_cache, recovery_lock,
             threads, rebuilds>>
docVars == <<documents, vectors, vectorstore_version, doc_changes, lastDoc>>
protVars == <<protection, lastWrite>>
bootVars == <<startup>>
startVars == <<lastHealth, protVars, bootVars>>
laterVars == <<lastSchedule, lastRequest, deliveries, writers, startVars>>

vars == <<chat_history, message_histories, added, faulted, lastAdd, now,
          processed_message, lastDedup, marked, bot_status, lastBot, lastResponse,
          lastHook, outbox, events, index, stored, auto_recovery_enabled,
          health_cache, recovery_lock, threads, rebuilds, documents, vectors,
          vectorstore_version, doc_changes, lastDoc, lastSchedule, lastRequest,
          deliveries, writers, lastHealth, protection, lastWrite, startup>>

(***************************************************************************)
(* Conversation store (app/models/conversation.py).                        *)
(* A stored message is [type, content]: add_user_message stores a          *)
(* HumanMessage ("human"), add_ai_message an AIMessage ("ai").  A text is   *)
(* [kind, form, n, phrases]: kind "blank" for an empty or whitespace-only  *)
(* string, form for the template that produced it, n to tell texts apart,  *)
(* phrases for the fixed agent phrases it contains.  The user id "" stands *)
(* for a missing one.                                                      *)
(***************************************************************************)
Text(n) == [kind |-> "text", form |-> "plain", n |-> n, phrases |-> {}]
BlankText == [kind |-> "blank", form |-> "plain", n |-> 0, phrases |-> {}]

\* not content.strip()
IsBlank(content) == content.kind = "blank"

StoredMessage(role, content) ==
    [type |-> IF role = "user" THEN "human" ELSE "ai", content |-> content]

\* get_chat_history(format_type = "dict"): HumanMessage -> "user", else "assistant".
DictMessage(msg) ==
    [role |-> IF msg.type = "human" THEN "user" ELSE "assistant", content |-> msg.content]

get_chat_history(hist, user_id) ==
    IF user_id = "" THEN <<>>
    ELSE [i \in 1..Len(hist[user_id]) |-> DictMessage(hist[user_id][i])]

\* messages[-max_messages:]
MutTailOffByOne(messages) ==
    SubSeq(messages, Len(messages) - max_messages, Len(messages))

MutKeepOldest(messages) == SubSeq(messages, 1, max_messages)

messages_to_keep(messages) ==
    SubSeq(messages, Len(messages) - max_messages + 1, Len(messages))

\* _apply_message_window: every exception is swallowed, so a failure of the
\* read or of clear() leaves the list untrimmed, and a failure after clear()
\* leaves it without the tail that was to be written back.
apply_message_window(cache, user_id, messages, fault) ==
    IF user_id \notin cache THEN messages
    ELSE IF fault = "window" THEN messages
    ELSE IF Len(messages) > max_messages
         THEN IF fault = "readd" THEN <<>> ELSE messages_to_keep(messages)
         ELSE messages

\* add_message: the result and the store after the call.
add_message(hist, cache, user_id, role, content, fault) ==
    IF user_id = "" \/ IsBlank(content)
    THEN [ok |-> FALSE, hist |-> hist, cache |-> cache]
    ELSE IF fault = "create" /\ user_id \notin cache
    THEN [ok |-> FALSE, hist |-> hist, cache |-> cache]
    ELSE LET cache1 == cache \cup {user_id}
             appended == IF role \in {"user", "assistant"}
                         THEN Append(hist[user_id], StoredMessage(role, content))
                         ELSE hist[user_id]
         IN IF fault = "append"
            THEN [ok |-> FALSE, hist |-> hist, cache |-> cache1]
            ELSE [ok |-> TRUE,
                  hist |-> [hist EXCEPT ![user_id] =
                               apply_message_window(cache1, user_id, appended, fault)],
                  cache |-> cache1]

\* clear_conversation
clear_conversation(hist, cache, user_id) ==
    IF user_id = ""
    THEN [ok |-> FALSE, hist |-> hist, cache |-> cache]
    ELSE [ok |-> TRUE, hist |-> [hist EXCEPT ![user_id] = <<>>],
          cache |-> cache \ {user_id}]

NoCall == [op |-> "none"]

InitConv ==
    /\ chat_history = [u \in Users |-> <<>>]
    /\ message_histories = {}
    /\ added = [u \in Users |-> <<>>]
    /\ faulted = {}
    /\ lastAdd = NoCall

TotalAdded == Len(added["u1"]) + Len(added["u2"])

\* The role of the k-th turn of a conversation: the two parties alternate,
\* as in get_response, which stores the user turn and then the assistant turn.
TurnRole(user_id, k) ==
    IF (k % 2 = 1) = (user_id = "u1") THEN "user" ELSE "assistant"

\* One add_message call; the content of the k-th accepted turn is k, so that
\* every turn is distinguishable.
AddMessage(user_id, role, blank, fault) ==
    /\ TotalAdded < MaxAdds
    /\ user_id # "" /\ role # "system" => role = TurnRole(user_id, Len(added[user_id]) + 1)
    /\ LET content == IF blank THEN BlankText
                      ELSE IF user_id = "" THEN Text(1)
                      ELSE Text(Len(added[user_id]) + 1)
           r == add_message(chat_history, message_histories, user_id, role, content, fault)
           accepted == r.ok /\ role \in {"user", "assistant"}
       IN /\ chat_history' = r.hist
          /\ message_histories' = r.cache
          /\ added' = IF accepted
                      THEN [added EXCEPT ![user_id] =
                               Append(@, [role |-> role, content |-> content])]
                      ELSE added
          /\ faulted' = IF user_id # "" /\ ~blank /\ fault # "none"
                        THEN faulted \cup {user_id} ELSE faulted
          /\ lastAdd' = [op |-> "add_message", user_id |-> user_id, role |-> role,
                         content |-> content, ok |-> r.ok]
    /\ UNCHANGED <<now, dedupVars, botVars, orchVars, hookVars, recVars, docVars, laterVars>>

ClearConversation(user_id) ==
    /\ user_id # ""
    /\ chat_history[user_id] # <<>> \/ user_id \in message_histories
    /\ LET r == clear_conversation(chat_history, message_histories, user_id)
       IN /\ chat_history' = r.hist
          /\ message_histories' = r.cache
    /\ added' = [added EXCEPT ![user_id] = <<>>]
    /\ faulted' = faulted \ {user_id}
    /\ lastAdd' = [op |-> "clear_conversation", user_id |-> user_id]
    /\ UNCHANGED <<now, dedupVars, botVars, orchVars, hookVars, recVars, docVars, laterVars>>

NextConv ==
    \/ \E u \in Users \cup {""}, role \in Roles, blank \in BOOLEAN, fault \in AddFaults :
          AddMessage(u, role, blank, fault)
    \/ \E u \in Users : ClearConversation(u)

(***************************************************************************)
(* The clock.  It is observed at the instants around the multiples of the  *)
(* marker lifetime, where the expiry of a marker is decided.               *)
(***************************************************************************)
Instants ==
    {t \in UNION {{k * PROCESSED_MESSAGE_TTL - 1, k * PROCESSED_MESSAGE_TTL,
                   k * PROCESSED_MESSAGE_TTL + 1} : k \in 0..MaxPeriods} :
        t >= 0 /\ t <= MaxPeriods * PROCESSED_MESSAGE_TTL}

InitClock == now = 0

(***************************************************************************)
(* Chatwoot service: de-duplication (app/services/chatwoot_service.py).    *)
(* The key processed_message:<conversation>:<message> is the pair of the   *)
(* two ids; a key set with ex = ttl at time t exists at t' iff t' < t+ttl. *)
(***************************************************************************)
Pairs == Conversations \X (MessageIds \ {0})

DedupFaults == {"none", "exists", "set"}

MutNoExpiry(markers, t, key) == markers[key] # 0

MutNeverExists(markers, t, key) == FALSE

\* redis_client.exists(key)
marker_exists(markers, t, key) == markers[key] > t

MutCheckOnly(markers, t, message_id, conversation_id, fault) ==
    [result |-> message_id # 0 /\ fault # "exists"
                /\ marker_exists(markers, t, <<conversation_id, message_id>>),
     markers |-> markers]

\* is_message_already_processed: the result and the markers after the call.
\* A store failure at exists() or at set() is caught and reported as
\* not-processed.
is_message_already_processed(markers, t, message_id, conversation_id, fault) ==
    IF message_id = 0
    THEN [result |-> FALSE, markers |-> markers]
    ELSE LET key == <<conversation_id, message_id>>
         IN IF fault = "exists"
            THEN [result |-> FALSE, markers |-> markers]
            ELSE IF marker_exists(markers, t, key)
            THEN [result |-> TRUE, markers |-> markers]
            ELSE IF fault = "set"
            THEN [result |-> FALSE, markers |-> markers]
            ELSE [result |-> FALSE,
                  markers |-> [markers EXCEPT ![key] = t + PROCESSED_MESSAGE_TTL]]

InitDedup ==
    /\ processed_message = [p \in Pairs |-> 0]
    /\ marked = [p \in Pairs |-> -1]
    /\ lastDedup = NoCall

(***************************************************************************)
(* Chatwoot service: bot status.  The hash stores str(is_active), that is  *)
(* "True" or "False".  hset refuses a None value, so an event without a    *)
(* status writes nothing.                                                  *)
(***************************************************************************)
bot_active_statuses == {"open"}
bot_inactive_statuses == {"pending", "resolved", "snoozed"}

NoRecord == [active |-> "", status |-> "", updated_at |-> -1, expires |-> -1]

MutActiveUnlessInactive(conversation_status) ==
    conversation_status \notin bot_inactive_statuses

\* conversation_status in self.bot_active_statuses
is_active(conversation_status) == conversation_status \in bot_active_statuses

\* str(is_active)
PyStr(b) == IF b THEN "True" ELSE "False"

\* update_bot_status: the hash table after the call.
update_bot_status(bots, t, conversation_id, conversation_status, fault) ==
    IF fault \/ conversation_status = "none"
    THEN bots
    ELSE [bots EXCEPT ![conversation_id] =
             [active |-> PyStr(is_active(conversation_status)),
              status |-> conversation_status,
              updated_at |-> t,
              expires |-> t + BOT_STATUS_TTL]]

MutVerdictOnly(bots, t, conversation_id, conversation_status, fault) ==
    [result |-> is_active(conversation_status), bots |-> bots]

\* should_bot_respond: the verdict and the hash table after the call.
should_bot_respond(bots, t, conversation_id, conversation_status, fault) ==
    [result |-> is_active(conversation_status),
     bots |-> update_bot_status(bots, t, conversation_id, conversation_status, fault)]

\* handle_conversation_updated; conversation id 0 stands for a missing id.
handle_conversation_updated(bots, t, conversation_id, conversation_status, fault) ==
    IF conversation_id = 0 \/ conversation_status = "none"
    THEN [result |-> FALSE, bots |-> bots]
    ELSE [result |-> TRUE,
          bots |-> update_bot_status(bots, t, conversation_id, conversation_status, fault)]

InitBot ==
    /\ bot_status = [c \in Conversations |-> NoRecord]
    /\ lastBot = NoCall

(***************************************************************************)
(* Multi-agent orchestrator (app/services/multiagent_system.py).           *)
(* The router and the agents are language-model chains: what they return   *)
(* and whether they raise is an input of the model.  A confidence is held  *)
(* in hundredths (0.8 is 80).                                              *)
(***************************************************************************)
Intents == {"EMERGENCY", "SALES", "SCHEDULE", "SUPPORT", "OTHER", "missing"}
\* The confidence field of the router's JSON object: a number, absent, or
\* a value that is no number.
Confidences ==
    {[kind |-> "number", value |-> v] : v \in {30, 79, 80, 81, 100}}
        \cup {[kind |-> "missing", value |-> 0], [kind |-> "text", value |-> 0]}
\* What the router chain does: it raises, returns text that is no JSON,
\* returns JSON that is no object, or returns a JSON object.
RouterOutputs ==
    {[kind |-> k, intent |-> "missing", confidence |-> [kind |-> "missing", value |-> 0]] :
        k \in {"raise", "text", "notobject"}}
        \cup {[kind |-> "object", intent |-> i, confidence |-> c] :
                 i \in Intents, c \in Confidences}

\* json.loads and the two .get calls with their defaults; err when the
\* parsed value has no .get (AttributeError, which is no JSONDecodeError).
classification(router) ==
    IF router.kind = "text"
    THEN [err |-> FALSE, intent |-> "SUPPORT", conf_is_number |-> TRUE, confidence |-> 30]
    ELSE IF router.kind = "notobject"
    THEN [err |-> TRUE, intent |-> "SUPPORT", conf_is_number |-> TRUE, confidence |-> 0]
    ELSE [err |-> FALSE,
          intent |-> IF router.intent = "missing" THEN "SUPPORT" ELSE router.intent,
          conf_is_number |-> router.confidence.kind # "text",
          confidence |-> IF router.confidence.kind = "missing" THEN 50
                         ELSE router.confidence.value]

MutThresholdInclusive(c) ==
    IF c.intent = "EMERGENCY" THEN "emergency"
    ELSE IF ~c.conf_is_number THEN "error"
    ELSE IF c.confidence >= 80
         THEN IF c.intent = "SALES" THEN "sales"
              ELSE IF c.intent = "SCHEDULE" THEN "schedule"
              ELSE "support"
         ELSE "support"

\* The dispatch of _orchestrate; "error" when the comparison of a confidence
\* that is no number raises.
dispatch(c) ==
    IF c.intent = "EMERGENCY" THEN "emergency"
    ELSE IF ~c.conf_is_number THEN "error"
    ELSE IF c.confidence > 80
         THEN IF c.intent = "SALES" THEN "sales"
              ELSE IF c.intent = "SCHEDULE" THEN "schedule"
              ELSE "support"
         ELSE "support"

MutNoFallback(router, agent_fails, fallback_fails) ==
    LET c == classification(router)
        first == IF router.kind = "raise" \/ c.err THEN "error" ELSE dispatch(c)
    IN [raised |-> first = "error" \/ agent_fails,
        dispatched |-> first,
        invoked |-> IF first = "error" THEN <<"router">> ELSE <<"router", first>>,
        answered_by |-> IF first = "error" \/ agent_fails THEN "none" ELSE first]

\* _orchestrate: the agents invoked in order, the agent whose text is
\* returned, and whether an exception leaves the function.  Every exception
\* of the try block is answered by the Support agent; an exception of that
\* call leaves the function.
orchestrate(router, agent_fails, fallback_fails) ==
    LET c == classification(router)
        first == IF router.kind = "raise" \/ c.err THEN "error" ELSE dispatch(c)
        fallback == first = "error" \/ agent_fails
    IN [raised |-> fallback /\ fallback_fails,
        dispatched |-> first,
        invoked |-> <<"router">>
                      \o (IF first = "error" THEN <<>> ELSE <<first>>)
                      \o (IF fallback THEN <<"support">> ELSE <<>>),
        answered_by |-> IF ~fallback THEN first
                        ELSE IF fallback_fails THEN "none" ELSE "support"]

\* _determine_agent_used: the first fixed phrase found in the response.
determine_agent_used(response) ==
    IF "emergency" \in response.phrases THEN "emergency"
    ELSE IF "sales" \in response.phrases THEN "sales"
    ELSE IF "schedule" \in response.phrases THEN "schedule"
    ELSE "support"

Canned(which) == [kind |-> "text", form |-> which, n |-> 0, phrases |-> {}]

\* The question composed from the media context.
processed_question(question, media_type, has_context) ==
    IF media_type = "image" /\ has_context
    THEN [kind |-> "text", form |-> "visual", n |-> question.n, phrases |-> {}]
    ELSE IF media_type = "voice" /\ has_context
    THEN [kind |-> "text", form |-> "voice", n |-> question.n, phrases |-> {}]
    ELSE question

\* not user_id or not user_id.strip()
BlankUserId(user_id) == user_id \in {"", " "}

MutReplyFirst(hist, cache, user_id, question, response, f1, f2) ==
    LET a1 == add_message(hist, cache, user_id, "assistant", response, f2)
        a2 == add_message(a1.hist, a1.cache, user_id, "user", question, f1)
    IN [hist |-> a2.hist, cache |-> a2.cache, ok1 |-> a2.ok, ok2 |-> a1.ok]

\* The two add_message calls of get_response.
persist_turns(hist, cache, user_id, question, response, f1, f2) ==
    LET a1 == add_message(hist, cache, user_id, "user", question, f1)
        a2 == add_message(a1.hist, a1.cache, user_id, "assistant", response, f2)
    IN [hist |-> a2.hist, cache |-> a2.cache, ok1 |-> a1.ok, ok2 |-> a2.ok]

\* get_response.  env is what the call meets: load (the outcome of the
\* history read), router, agent_fails, fallback_fails, text (what the
\* answering agent returns), f1 and f2 (the outcomes of the two stores).
\* The result is the store after the call and the record of the call:
\* reply and label are the returned pair, raised tells whether an exception
\* left the function.
get_response(hist, cache, question, user_id, media_type, has_context, env) ==
    LET pq == processed_question(question, media_type, has_context)
        call == [op |-> "get_response", question |-> pq, user_id |-> user_id,
                 env |-> env, raised |-> FALSE, router_invoked |-> FALSE,
                 orch |-> [raised |-> FALSE, dispatched |-> "none", invoked |-> <<>>,
                           answered_by |-> "none"],
                 ok1 |-> FALSE, ok2 |-> FALSE,
                 before |-> IF user_id \in Users THEN hist[user_id] ELSE <<>>]
    IN IF IsBlank(pq)
       THEN [hist |-> hist, cache |-> cache,
             call |-> call @@ [reply |-> Canned("please_send"), label |-> "support",
                               outcome |-> "blank_question"]]
       ELSE IF BlankUserId(user_id)
       THEN [hist |-> hist, cache |-> cache,
             call |-> call @@ [reply |-> Canned("invalid_user"), label |-> "error",
                               outcome |-> "invalid_user"]]
       ELSE LET cache1 == cache \cup {user_id}
                o == orchestrate(env.router, env.agent_fails, env.fallback_fails)
            IN IF o.raised
               THEN [hist |-> hist, cache |-> cache1,
                     call |-> [call EXCEPT !.router_invoked = TRUE, !.orch = o] @@
                              [reply |-> Canned("apology"), label |-> "error",
                               outcome |-> "error"]]
               ELSE LET p == persist_turns(hist, cache1, user_id, pq, env.text,
                                           env.f1, env.f2)
                    IN [hist |-> p.hist, cache |-> p.cache,
                        call |-> [call EXCEPT !.router_invoked = TRUE, !.orch = o,
                                              !.ok1 = p.ok1, !.ok2 = p.ok2] @@
                                 [reply |-> env.text,
                                  label |-> determine_agent_used(env.text),
                                  outcome |-> "answered"]]

(***************************************************************************)
(* Chatwoot service: inbound pipeline (app/services/chatwoot_service.py).  *)
(* An event is [message_type, conversation, status, content, message_id,   *)
(* contact, attachments].  The conversation field is the outcome of the    *)
(* three checks on the conversation data; content is "text", "empty" (an   *)
(* empty or whitespace-only string) or "null" (a JSON null, on which       *)
(* .strip() raises); an attachment is [type, result] after normalisation,  *)
(* type "none" when process_attachment returns None.  The user id u1       *)
(* abbreviates chatwoot_contact_12 and u2 chatwoot_contact_contact_7.      *)
(***************************************************************************)
MutAnyMessageType(message_type) == TRUE

\* message_type != "incoming" is ignored
is_incoming(message_type) == message_type = "incoming"

\* Contact ids are strings written as sequences of characters; <<>> stands for
\* an absent, null or empty value.
Digits == {"0", "1", "2", "3", "4", "5", "6", "7", "8", "9"}
Absent == <<>>
Id12 == <<"1", "2">>
Padded12 == <<" ", "1", "2", " ">>
Spaces == <<" ", " ">>
IdAbc == <<"a", "b", "c">>
ContactPrefix == <<"c", "o", "n", "t", "a", "c", "t", "_">>
Contact7 == ContactPrefix \o <<"7">>

RECURSIVE lstrip(_)
lstrip(s) == IF s # <<>> /\ Head(s) = " " THEN lstrip(Tail(s)) ELSE s

RECURSIVE rstrip(_)
rstrip(s) ==
    IF s # <<>> /\ s[Len(s)] = " " THEN rstrip(SubSeq(s, 1, Len(s) - 1)) ELSE s

\* str.strip()
strip(s) == rstrip(lstrip(s))

\* str.isdigit()
isdigit(s) == s # <<>> /\ \A i \in 1..Len(s) : s[i] \in Digits

\* str.startswith(prefix)
startswith(s, prefix) == Len(s) >= Len(prefix) /\ SubSeq(s, 1, Len(prefix)) = prefix

\* contact_id.isdigit() or contact_id.startswith("contact_")
valid_contact_format(contact_id) ==
    isdigit(contact_id) \/ startswith(contact_id, ContactPrefix)

MutAgentSenderCounts(contact) == contact.sender

\* The third extractor: the id of the top-level sender unless it is an agent.
root_sender_id(contact) ==
    IF contact.sender_type # "agent" THEN contact.sender ELSE Absent

\* extract_contact_id: the first of the three places whose extractor does not
\* raise and yields a non-empty id that is of a valid format once trimmed;
\* contact.malformed names the place whose container is not an object (its
\* extractor raises and the loop continues).
extract_contact_id(contact) ==
    LET candidates ==
            <<[method |-> "conversation.contact_inbox.contact_id",
               raises |-> contact.malformed = "contact_inbox",
               id |-> contact.contact_inbox],
              [method |-> "conversation.meta.sender.id",
               raises |-> contact.malformed = "meta",
               id |-> contact.meta_sender],
              [method |-> "root.sender.id",
               raises |-> contact.malformed = "sender",
               id |-> root_sender_id(contact)]>>
        hits == {i \in 1..3 : /\ ~candidates[i].raises
                              /\ candidates[i].id # Absent
                              /\ strip(candidates[i].id) # <<>>
                              /\ valid_contact_format(strip(candidates[i].id))}
    IN IF hits = {}
       THEN [contact_id |-> Absent, method |-> "none", is_valid |-> FALSE]
       ELSE LET i == CHOOSE i \in hits : \A j \in hits : i <= j
            IN [contact_id |-> strip(candidates[i].id), method |-> candidates[i].method,
                is_valid |-> TRUE]

\* ConversationManager._create_user_id
create_user_id(contact_id) == IF contact_id = Id12 THEN "u1" ELSE "u2"

MutNoBreak(attachments) ==
    LET media == {i \in 1..Len(attachments) : attachments[i].type \in {"image", "audio"}}
    IN IF media = {}
       THEN [media_type |-> "text", media_context |-> "none", handled |-> Len(attachments)]
       ELSE LET i == CHOOSE i \in media : \A j \in media : i <= j
            IN [media_type |-> attachments[i].type,
                media_context |-> attachments[i].result, handled |-> Len(attachments)]

\* The attachment loop: the first attachment of type image or audio sets the
\* media type and the media context, and ends the loop.
process_attachments(attachments) ==
    LET media == {i \in 1..Len(attachments) : attachments[i].type \in {"image", "audio"}}
    IN IF media = {}
       THEN [media_type |-> "text", media_context |-> "none", handled |-> Len(attachments)]
       ELSE LET i == CHOOSE i \in media : \A j \in media : i <= j
            IN [media_type |-> attachments[i].type,
                media_context |-> attachments[i].result, handled |-> i]

\* Truth value of the media context: None and "" are false; a transcript,
\* a description and the failure placeholder are true.
has_media_context(media_context) == media_context \in {"text", "failed"}

MediaText(media_context) ==
    [kind |-> "text", form |-> "media",
     n |-> IF media_context = "failed" THEN 3 ELSE 2, phrases |-> {}]

MutNoTrim(content) == content

\* data.get("content", "").strip(): "blank" is a content of whitespace only.
stripped_content(content) == IF content = "blank" THEN "empty" ELSE content

\* What the POST to the conversation-messages endpoint of Chatwoot meets: the
\* status code of the response, or the transport error raised by the request.
SendResponses == {"200", "201", "404", "500", "timeout"}

MutAnySuccessStatus(response) == response \in {"200", "201"}

\* send_message: True on status 200, False on any other status and on an
\* exception of requests.post.
send_message(response) == response = "200"

HookErrors == {"missing_conversation_data", "missing_conversation_id",
               "invalid_conversation_id", "content_error", "contact_error",
               "send_error"}

\* process_incoming_message.  met is what the call meets: bot_fault and
\* dedup_fault (store failures), env (what get_response meets) and send
\* (what send_message meets).  The result is the stores after the call
\* and the record of the call: outcome is the returned status or the
\* exception raised, steps the pipeline stages in the order they ran.
process_incoming_message(bots, markers, hist, out, t, data, met) ==
    LET base == [op |-> "process_incoming_message", data |-> data, met |-> met, at |-> t]
        Stop(outcome, steps, b, m) ==
            [bots |-> b, markers |-> m, hist |-> hist, out |-> out,
             call |-> base @@ [outcome |-> outcome, raised |-> outcome \in HookErrors,
                               steps |-> steps, reply |-> BlankText,
                               orchestrator |-> FALSE, router_invoked |-> FALSE,
                               agent_used |-> "none", send_called |-> FALSE]]
        id == data.conversation.id
    IN IF ~is_incoming(data.message_type)
       THEN Stop("non_incoming_message", <<>>, bots, markers)
       ELSE IF data.conversation.kind = "missing"
       THEN Stop("missing_conversation_data", <<>>, bots, markers)
       ELSE IF data.conversation.kind = "noid"
       THEN Stop("missing_conversation_id", <<>>, bots, markers)
       ELSE IF data.conversation.kind = "badid"
       THEN Stop("invalid_conversation_id", <<>>, bots, markers)
       ELSE
       LET s == should_bot_respond(bots, t, id, data.status, met.bot_fault)
       IN IF ~s.result
          THEN Stop("bot_inactive", <<"bot_status">>, s.bots, markers)
          ELSE IF data.content = "null"
          THEN Stop("content_error", <<"bot_status">>, s.bots, markers)
          ELSE
          LET d == IF data.message_id # 0
                   THEN is_message_already_processed(markers, t, data.message_id, id,
                                                     met.dedup_fault)
                   ELSE [result |-> FALSE, markers |-> markers]
              st1 == IF data.message_id # 0 THEN <<"bot_status", "dedup">>
                                            ELSE <<"bot_status">>
          IN IF d.result
             THEN Stop("already_processed", st1, s.bots, d.markers)
             ELSE
             LET c == extract_contact_id(data.contact)
                 st2 == Append(st1, "contact")
             IN IF ~c.is_valid
                THEN Stop("contact_error", st2, s.bots, d.markers)
                ELSE
                LET user_id == create_user_id(c.contact_id)
                    m == process_attachments(data.attachments)
                    ctx == has_media_context(m.media_context)
                    st3 == st2 \o [i \in 1..m.handled |-> "attachment"]
                IN IF stripped_content(data.content) = "empty" /\ ~ctx
                   THEN [bots |-> s.bots, markers |-> d.markers, hist |-> hist, out |-> out,
                         call |-> base @@ [outcome |-> "empty_message", raised |-> FALSE,
                                           steps |-> st3, reply |-> Canned("send_content"),
                                           orchestrator |-> FALSE, router_invoked |-> FALSE,
                                           agent_used |-> "none", send_called |-> FALSE]]
                   ELSE
                   LET question == IF stripped_content(data.content) = "empty"
                                   THEN MediaText(m.media_context) ELSE Text(1)
                       g == get_response(hist, {}, question, user_id, m.media_type, ctx,
                                         met.env)
                       reply == IF IsBlank(g.call.reply) THEN Canned("could_not_process")
                                                         ELSE g.call.reply
                   IN [bots |-> s.bots, markers |-> d.markers, hist |-> g.hist,
                       out |-> IF send_message(met.send)
                               THEN Append(out, [conversation_id |-> id, content |-> reply])
                               ELSE out,
                       call |-> base @@
                                [outcome |-> IF send_message(met.send) THEN "success"
                                                                        ELSE "send_error",
                                 raised |-> ~send_message(met.send),
                                 steps |-> st3 \o <<"get_response", "send_message">>,
                                 reply |-> reply, orchestrator |-> TRUE,
                                 router_invoked |-> g.call.router_invoked,
                                 agent_used |-> g.call.label, send_called |-> TRUE]]

InitHook ==
    /\ lastHook = NoCall
    /\ outbox = <<>>
    /\ events = 0

(***************************************************************************)
(* Knowledge-base index and auto-recovery                                  *)
(* (app/services/vector_auto_recovery.py, vectorstore_service.py).         *)
(* The index definition either exists, with the number of chunks it        *)
(* reports, or is missing.  Constructing a VectorstoreService creates the   *)
(* definition when it is missing (this is how the reconstruction recreates *)
(* it); a query against a missing definition raises.                       *)
(***************************************************************************)
NoStatus ==
    [known |-> FALSE, index_exists |-> FALSE, needs_recovery |-> FALSE,
     healthy |-> FALSE, stored_documents |-> 0, index_doc_count |-> 0]

MutNeedsRecoveryIgnoresStored(doc_count, stored_count) ==
    [known |-> TRUE, index_exists |-> TRUE,
     needs_recovery |-> doc_count = 0,
     healthy |-> doc_count > 0 /\ stored_count > 0,
     stored_documents |-> stored_count, index_doc_count |-> doc_count]

\* The health dictionary of a probe that reached the index.
HealthStatus(doc_count, stored_count) ==
    [known |-> TRUE, index_exists |-> TRUE,
     needs_recovery |-> doc_count = 0 /\ stored_count > 0,
     healthy |-> doc_count > 0 /\ stored_count > 0,
     stored_documents |-> stored_count, index_doc_count |-> doc_count]

\* The health dictionary of a probe that raised; it carries no index_doc_count
\* key (read here as 0) and reports stored_documents 0 whatever is stored.
ErrorStatus ==
    [known |-> TRUE, index_exists |-> FALSE, needs_recovery |-> TRUE,
     healthy |-> FALSE, stored_documents |-> 0, index_doc_count |-> 0]

EmptyCache == [last_check |-> 0, status |-> NoStatus]

MutNeverCached(cache, t, idx, stored_count, fault) ==
    LET status == IF ~idx.exists \/ fault
                  THEN ErrorStatus
                  ELSE HealthStatus(idx.num_docs, stored_count)
    IN [status |-> status, cache |-> [last_check |-> t, status |-> status],
        probed |-> TRUE]

MutSlidingCache(cache, t, idx, stored_count, fault) ==
    IF t - cache.last_check < health_check_interval /\ cache.status.known
    THEN [status |-> cache.status, cache |-> [cache EXCEPT !.last_check = t],
          probed |-> FALSE]
    ELSE MutNeverCached(cache, t, idx, stored_count, fault)

\* verify_index_health: the verdict, the cache after the call and whether
\* the store was contacted.
verify_index_health(cache, t, idx, stored_count, fault) ==
    IF t - cache.last_check < health_check_interval /\ cache.status.known
    THEN [status |-> cache.status, cache |-> cache, probed |-> FALSE]
    ELSE LET status == IF ~idx.exists \/ fault
                       THEN ErrorStatus
                       ELSE HealthStatus(idx.num_docs, stored_count)
         IN [status |-> status, cache |-> [last_check |-> t, status |-> status],
             probed |-> TRUE]

\* VectorstoreService.check_health: the same dictionary as the probe of
\* verify_index_health, without the cache.
check_health(idx, stored_count, fault) ==
    IF ~idx.exists \/ fault THEN ErrorStatus
    ELSE HealthStatus(idx.num_docs, stored_count)

\* A query of the vector store (similarity_search, retriever.invoke).
query_succeeds(idx, fault) == idx.exists /\ ~fault

\* RedisVectorStore(...): the definition after the construction.
created(idx, stored_count) ==
    IF idx.exists THEN idx ELSE [exists |-> TRUE, num_docs |-> stored_count]

MutDeleteDocuments(stored_count, delete_documents) == 0

\* ft(index_name).dropindex(delete_documents): the chunk records left when
\* the definition is dropped.
dropindex(stored_count, delete_documents) ==
    IF delete_documents THEN 0 ELSE stored_count

MutRetryAlways(rv) == TRUE

\* if self.auto_recovery.reconstruct_index_from_stored_data(): retry
should_retry(rv) == rv = "true"

Threads == {"t1", "t2", "t3"}
Operations == {"force_recovery", "ensure_index_healthy", "protected_retriever_invoke",
               "search", "retriever_invoke", "check_health"}
\* The threads are interchangeable, so an assignment of operations to
\* threads is not repeated with the threads exchanged: t1 runs any
\* operation, t2 a recovery or a search, t3 a forced recovery.
ThreadOperations(t) ==
    IF t = "t1" THEN Operations
    ELSE IF t = "t2" THEN {"force_recovery", "ensure_index_healthy", "search"}
    ELSE {"force_recovery"}

Idle ==
    [op |-> "none", pc |-> "idle", ret |-> <<>>, rv |-> "none", raised |-> FALSE,
     failed |-> FALSE, invokes |-> 0, reconstructions |-> 0, recovered |-> "none",
     retries |-> 0, retried |-> "none", behind |-> "none", dropped |-> 0, in_window |-> FALSE,
     health |-> NoStatus, ensured |-> "none"]

\* A return: to the caller on the stack, or out of the operation.
Return(th, value) ==
    IF th.ret = <<>>
    THEN [th EXCEPT !.pc = "done", !.rv = value]
    ELSE [th EXCEPT !.pc = Head(th.ret), !.ret = Tail(th.ret), !.rv = value]

InitRec ==
    /\ stored = MaxChunks
    /\ index = [exists |-> TRUE, num_docs |-> MaxChunks]
    /\ auto_recovery_enabled = TRUE
    /\ health_cache = EmptyCache
    /\ recovery_lock = "free"
    /\ threads = [t \in Threads |-> Idle]
    /\ rebuilds = [drops |-> 0, creates |-> 0]

InitOrch == lastResponse = NoCall

(***************************************************************************)
(* Document manager (app/models/document.py) and the chunk operations of   *)
(* the vectorstore service it calls.                                       *)
(* A document record is [doc_id, content, metadata], metadata being the    *)
(* doc_id the caller's metadata carried ("" for none) before add_document  *)
(* overwrote it; a chunk record is                                         *)
(* [key, doc_id, metadata], where doc_id is the hash field doc_id ("" when *)
(* the field is absent) and metadata is what the JSON field metadata       *)
(* carries: "" when the field is absent, "{}" for an object without        *)
(* doc_id, "invalid" for text json.loads rejects, otherwise the doc_id     *)
(* inside the object.                                                      *)
(***************************************************************************)
DocContents == {"a", "b"}
DocIds == {"d1", "d2", "d3"}
\* Caller-supplied metadata: without a doc_id, or carrying one of its own.
Metadatas == {"", "d3"}
\* Number of chunk keys of the index namespace.
MaxVectors == 3
VectorKeys == 1..MaxVectors
\* Number of chunks create_chunks yields for a content (none when it fails).
ChunksPerDocument == {0, 1, 2}
\* How the vector store library writes the metadata of a chunk.
ChunkForms == {"fields", "json"}
AddDocumentFaults == {"none", "add_texts", "hset"}

\* hashlib.md5(content.encode()).hexdigest()
md5(content) == IF content = "a" THEN "d1" ELSE "d2"

MutIdFromMetadata(content, metadata) ==
    IF metadata # "" THEN metadata ELSE md5(content)

\* add_document: the id given to a document.
new_doc_id(content, metadata) == md5(content)

existing_doc_ids(docs) == {d.doc_id : d \in docs}

\* json.loads(metadata_str).get('doc_id')
metadata_doc_id(metadata) ==
    [raised |-> metadata = "invalid",
     doc_id |-> IF metadata \in {"{}", "invalid"} THEN "" ELSE metadata]

MutMetadataFirst(v) ==
    IF v.metadata \notin {"", "{}", "invalid"}
    THEN [raised |-> FALSE, doc_id |-> v.metadata]
    ELSE [raised |-> FALSE, doc_id |-> v.doc_id]

\* The owner id cleanup_orphaned_vectors and get_diagnostics resolve for a
\* chunk: the direct field when it is set, else the doc_id of the metadata.
resolved_doc_id(v) ==
    IF v.doc_id # "" THEN [raised |-> FALSE, doc_id |-> v.doc_id]
    ELSE IF v.metadata = "" THEN [raised |-> FALSE, doc_id |-> ""]
    ELSE metadata_doc_id(v.metadata)

MutDirectFieldOnly(vs, doc_id) == {v \in vs : v.doc_id = doc_id}

\* VectorstoreService.find_vectors_by_doc_id
find_vectors_by_doc_id(vs, doc_id) ==
    {v \in vs : \/ v.doc_id = doc_id
               \/ /\ v.metadata # ""
                  /\ ~metadata_doc_id(v.metadata).raised
                  /\ metadata_doc_id(v.metadata).doc_id = doc_id}

\* VectorstoreService.delete_vectors
delete_vectors(vs, vector_keys) ==
    [vectors |-> vs \ vector_keys, deleted |-> Cardinality(vector_keys)]

\* document.py imports datetime, hashlib, json, logging and typing, not time.
time_is_defined == FALSE

\* DocumentChangeTracker.register_document_change: building the change key
\* evaluates time.time(); with the name undefined the NameError is caught by
\* the except of the method, before setex and increment_version.
register_document_change(version, changes, doc_id, change_type) ==
    IF time_is_defined
    THEN [version |-> version + 1,
          changes |-> changes \cup {[doc_id |-> doc_id, change_type |-> change_type]}]
    ELSE [version |-> version, changes |-> changes]

RECURSIVE free_keys(_, _)
\* The keys of n new chunk records.
free_keys(used, n) ==
    IF n = 0 THEN {}
    ELSE LET k == CHOOSE k \in VectorKeys \ used :
                      \A j \in VectorKeys \ used : k <= j
         IN {k} \cup free_keys(used \cup {k}, n - 1)

\* The chunk record add_texts writes for a chunk of document doc_id.
new_vector(key, doc_id, form) ==
    IF form = "fields" THEN [key |-> key, doc_id |-> doc_id, metadata |-> ""]
    ELSE [key |-> key, doc_id |-> "", metadata |-> doc_id]

\* DocumentManager.add_document
add_document(docs, vs, version, changes, content, metadata, n, form, fault) ==
    LET doc_id == new_doc_id(content, metadata)
        keys == free_keys({v.key : v \in vs}, n)
        added_vs == vs \cup {new_vector(k, doc_id, form) : k \in keys}
        record == [doc_id |-> doc_id, content |-> content, metadata |-> metadata,
                   chunk_count |-> n]
        saved == {d \in docs : d.doc_id # doc_id} \cup {record}
        change == register_document_change(version, changes, doc_id, "added")
    IN IF fault = "add_texts"
       THEN [raised |-> TRUE, doc_id |-> doc_id, chunk_count |-> 0, registered |-> FALSE,
             documents |-> docs, vectors |-> vs, version |-> version, changes |-> changes]
       ELSE IF fault = "hset"
       THEN [raised |-> TRUE, doc_id |-> doc_id, chunk_count |-> 0, registered |-> FALSE,
             documents |-> docs, vectors |-> added_vs, version |-> version,
             changes |-> changes]
       ELSE [raised |-> FALSE, doc_id |-> doc_id, chunk_count |-> n, registered |-> TRUE,
             documents |-> saved, vectors |-> added_vs, version |-> change.version,
             changes |-> change.changes]

\* DocumentManager.delete_document
delete_document(docs, vs, version, changes, doc_id) ==
    IF doc_id \notin existing_doc_ids(docs)
    THEN [found |-> FALSE, vectors_deleted |-> 0, registered |-> FALSE,
          documents |-> docs, vectors |-> vs, version |-> version, changes |-> changes]
    ELSE LET found_vs == find_vectors_by_doc_id(vs, doc_id)
             deletion == delete_vectors(vs, found_vs)
             change == register_document_change(version, changes, doc_id, "deleted")
         IN [found |-> TRUE, vectors_deleted |-> deletion.deleted, registered |-> TRUE,
             documents |-> {d \in docs : d.doc_id # doc_id},
             vectors |-> deletion.vectors,
             version |-> change.version, changes |-> change.changes]

\* cleanup_orphaned_vectors, the orphaned_vectors list.
orphaned_vectors(docs, vs) ==
    {v \in vs : LET owner == resolved_doc_id(v)
                IN /\ ~owner.raised
                   /\ owner.doc_id # ""
                   /\ owner.doc_id \notin existing_doc_ids(docs)}

\* DocumentManager.cleanup_orphaned_vectors
cleanup_orphaned_vectors(docs, vs, dry_run) ==
    LET orphans == orphaned_vectors(docs, vs)
        deletion == IF ~dry_run /\ orphans # {}
                    THEN delete_vectors(vs, orphans)
                    ELSE [vectors |-> vs, deleted |-> 0]
    IN [vectors |-> deletion.vectors,
        total_vectors |-> Cardinality(vs),
        total_documents |-> Cardinality(existing_doc_ids(docs)),
        orphaned_vectors_found |-> Cardinality(orphans),
        orphaned_vectors_deleted |-> deletion.deleted,
        dry_run |-> dry_run,
        orphaned_samples |-> orphans]

\* get_diagnostics, the keys of doc_id_counts.
doc_id_counts(vs) ==
    {resolved_doc_id(v).doc_id :
        v \in {w \in vs : ~resolved_doc_id(w).raised /\ resolved_doc_id(w).doc_id # ""}}

MutOrphanedByEitherField(docs, vs) ==
    {id \in existing_doc_ids(docs) : find_vectors_by_doc_id(vs, id) = {}}

\* get_diagnostics, the orphaned_docs list.
orphaned_documents(docs, vs) == existing_doc_ids(docs) \ doc_id_counts(vs)

\* DocumentManager.get_diagnostics
get_diagnostics(docs, vs) ==
    LET orphaned_docs == orphaned_documents(docs, vs)
    IN [total_documents |-> Cardinality(docs),
        total_vectors |-> Cardinality(vs),
        vectors_without_doc_id |->
            Cardinality({v \in vs : ~resolved_doc_id(v).raised
                                    /\ resolved_doc_id(v).doc_id = ""}),
        documents_with_vectors |-> Cardinality(doc_id_counts(vs)),
        orphaned_documents |-> Cardinality(orphaned_docs),
        orphaned_doc_samples |-> orphaned_docs]

NoDocCall == [op |-> "none"]

InitDocStore ==
    /\ documents = {}
    /\ vectors = {}
    /\ vectorstore_version = 0
    /\ doc_changes = {}
    /\ lastDoc = NoDocCall

(***************************************************************************)
(* Schedule agent helpers (app/services/multiagent_system.py).             *)
(* A slot time "HH:MM" is the pair <<HH, MM>>, whose order is the order of  *)
(* the zero-padded strings; <<>> stands for a slot that is neither a        *)
(* string nor a dictionary with a time.                                    *)
(***************************************************************************)
\* _time_to_minutes
time_to_minutes(time) == IF Len(time) = 2 THEN time[1] * 60 + time[2] ELSE 0

\* _add_minutes_to_time
add_minutes_to_time(time, minutes_to_add) ==
    LET total_minutes == time_to_minutes(time) + minutes_to_add
    IN <<(total_minutes \div 60) % 24, total_minutes % 60>>

MutAtMostThirtyApart(times) ==
    \A i \in 1..(Len(times) - 1) :
        time_to_minutes(times[i + 1]) - time_to_minutes(times[i]) <= 30

\* _are_consecutive_times
are_consecutive_times(times) ==
    \A i \in 1..(Len(times) - 1) :
        time_to_minutes(times[i + 1]) - time_to_minutes(times[i]) = 30

\* Order of two time strings.
time_before(a, b) == a[1] < b[1] \/ (a[1] = b[1] /\ a[2] <= b[2])

RECURSIVE insert_time(_, _)
insert_time(sorted, time) ==
    IF sorted = <<>> THEN <<time>>
    ELSE IF time_before(time, Head(sorted)) THEN <<time>> \o sorted
    ELSE <<Head(sorted)>> \o insert_time(Tail(sorted), time)

RECURSIVE sort_times(_)
\* times.sort()
sort_times(times) ==
    IF times = <<>> THEN <<>>
    ELSE insert_time(sort_times(Tail(times)), Head(times))

RECURSIVE slot_times(_)
\* The times of the slots that carry one.
slot_times(available_slots) ==
    IF available_slots = <<>> THEN <<>>
    ELSE IF Head(available_slots) = <<>> THEN slot_times(Tail(available_slots))
    ELSE <<Head(available_slots)>> \o slot_times(Tail(available_slots))

\* max(1, required_duration // 30)
required_slots(required_duration) ==
    IF required_duration \div 30 > 1 THEN required_duration \div 30 ELSE 1

slot_entry(start_time, required_duration) ==
    [start |-> start_time, end |-> add_minutes_to_time(start_time, required_duration)]

RECURSIVE filter_from(_, _, _, _)
\* The loop of _filter_slots_by_duration from position i on.
filter_from(times, i, n, required_duration) ==
    IF i > Len(times) - n + 1 THEN <<>>
    ELSE (IF are_consecutive_times(SubSeq(times, i, i + n - 1))
          THEN <<slot_entry(times[i], required_duration)>> ELSE <<>>)
         \o filter_from(times, i + 1, n, required_duration)

\* _filter_slots_by_duration
filter_slots_by_duration(available_slots, required_duration) ==
    IF available_slots = <<>> THEN <<>>
    ELSE LET times == sort_times(slot_times(available_slots))
             n == required_slots(required_duration)
         IN IF n = 1
            THEN [i \in 1..Len(times) |-> slot_entry(times[i], required_duration)]
            ELSE filter_from(times, 1, n, required_duration)

(***************************************************************************)
(* Date extraction of the Schedule agent.  A text is the sequence of its   *)
(* words; a word is a plain word or a date written with two separators.    *)
(* A phrase is in a text when its words occur in it one after the other,   *)
(* as the substring test of the code requires.                             *)
(***************************************************************************)
Word(w) == [kind |-> "word", text |-> w, d |-> 0, m |-> 0, y |-> 0, seps |-> <<>>]
WrittenDate(d, m, y, seps) ==
    [kind |-> "date", text |-> "", d |-> d, m |-> m, y |-> y, seps |-> seps]

\* str.lower() of a word.
lower(word) == IF word.text = "Hoy" THEN [word EXCEPT !.text = "hoy"] ELSE word

\* phrase in text.lower()
contains(text, phrase) ==
    \E i \in 1..(Len(text) - Len(phrase) + 1) :
        \A k \in 1..Len(phrase) : lower(text[i + k - 1]).text = phrase[k]

days_in_month(m, y) ==
    IF m = 2 THEN (IF y % 4 = 0 /\ (y % 100 # 0 \/ y % 400 = 0) THEN 29 ELSE 28)
    ELSE IF m \in {4, 6, 9, 11} THEN 30 ELSE 31

RECURSIVE plus_days(_, _)
\* today + timedelta(days = n), formatted %d-%m-%Y
plus_days(date, n) ==
    IF n = 0 THEN [kind |-> "date", text |-> "", d |-> date.d, m |-> date.m,
                   y |-> date.y, seps |-> <<"-", "-">>]
    ELSE plus_days(IF date.d < days_in_month(date.m, date.y)
                   THEN [date EXCEPT !.d = @ + 1]
                   ELSE IF date.m < 12 THEN [date EXCEPT !.d = 1, !.m = @ + 1]
                   ELSE [date EXCEPT !.d = 1, !.m = 1, !.y = @ + 1], n - 1)

NoDate == [kind |-> "None", text |-> "", d |-> 0, m |-> 0, y |-> 0, seps |-> <<>>]

\* _find_date_in_text
find_date_in_text(text, today) ==
    LET dates == {i \in 1..Len(text) : text[i].kind = "date"}
    IN IF dates # {}
       THEN LET i == CHOOSE i \in dates : \A j \in dates : i <= j
            IN [text[i] EXCEPT !.seps = <<"-", "-">>]
       ELSE IF contains(text, <<"hoy">>) THEN plus_days(today, 0)
       ELSE IF contains(text, <<"manana">>) THEN plus_days(today, 1)
       ELSE IF contains(text, <<"pasado", "manana">>) THEN plus_days(today, 2)
       ELSE NoDate

(***************************************************************************)
(* Schedule agent: process_schedule_with_selenium and the Availability     *)
(* agent it embeds.  A question is the set of the fragments it is made of; *)
(* keywords(fragment) are the keywords of the code's lists that are        *)
(* substrings of the fragment.                                            *)
(***************************************************************************)
Fragments ==
    {"agendar", "cita", "procede", "ahora", "horarios disponibles", "cuando hay",
     "me llamo ana", "3001234567", "hoy"}

keywords(fragment) ==
    CASE fragment = "agendar" -> {"agendar", "agenda"}
      [] fragment = "cita" -> {"cita"}
      [] fragment = "procede" -> {"procede"}
      [] fragment = "ahora" -> {"hora"}
      [] fragment = "horarios disponibles" -> {"horarios disponibles", "horario", "hora"}
      [] fragment = "cuando hay" -> {"cuando hay"}
      [] fragment = "me llamo ana" -> {"llamo"}
      [] fragment = "hoy" -> {"hoy"}
      [] OTHER -> {}

\* any(keyword in text.lower() for keyword in list)
any_keyword(text, list) == \E fragment \in text : keywords(fragment) \cap list # {}

\* At least seven digits in the text.
has_phone(text) == "3001234567" \in text

\* _contains_schedule_intent
contains_schedule_intent(question) ==
    any_keyword(question, {"agendar", "reservar", "programar", "cita", "appointment",
                           "agenda", "disponibilidad", "horario", "fecha", "hora",
                           "procede", "proceder", "confirmar cita"})

\* _extract_patient_info_from_history
extract_patient_info_from_history(history) ==
    /\ any_keyword(history, {"nombre", "llamo", "soy"})
    /\ (has_phone(history)
            \/ any_keyword(history, {"fecha", "dia", "manana", "hoy"}))

\* _has_complete_info_in_message
has_complete_info_in_message(message) ==
    /\ any_keyword(message, {"nombre", "llamo", "soy"})
    /\ has_phone(message)
    /\ any_keyword(message, {"fecha", "dia", "manana", "hoy"})

\* _should_use_selenium
should_use_selenium(question, history) ==
    /\ any_keyword(question, {"agendar", "reservar", "programar", "cita", "appointment",
                              "agenda", "disponibilidad", "horario", "fecha", "hora"})
    /\ (extract_patient_info_from_history(history)
            \/ has_complete_info_in_message(question))

MutNeverJustACheck(question) == FALSE

\* _is_just_availability_check
is_just_availability_check(question) ==
    /\ any_keyword(question, {"disponibilidad para", "horarios disponibles",
                              "que horarios", "cuando hay", "hay disponibilidad",
                              "ver horarios"})
    /\ ~any_keyword(question, {"agendar", "reservar", "procede", "proceder", "confirmar",
                               "quiero la cita", "agenda la cita"})

\* The texts the Availability agent answers with, and the empty string of a
\* question without scheduling intent.
AvailabilityResponses ==
    {"", "Error consultando disponibilidad", "Por favor especifica la fecha",
     "No hay horarios disponibles", "Horarios disponibles"}

\* _has_available_slots_confirmation on these texts: "Horarios disponibles
\* para <date> (...):" followed by the lines "- HH:MM - HH:MM" has the
\* positive indicators and no negative one; "No hay horarios disponibles
\* para <date>" has the indicator "horarios disponibles" and the negative
\* one; the other texts have no positive indicator.
has_available_slots_confirmation(availability_response) ==
    LET has_text_indicators ==
            availability_response \in {"No hay horarios disponibles", "Horarios disponibles"}
        has_list_format == availability_response = "Horarios disponibles"
        has_time_format == availability_response = "Horarios disponibles"
        has_negative ==
            availability_response \in {"No hay horarios disponibles",
                                       "Error consultando disponibilidad"}
        has_positive == has_text_indicators \/ has_list_format \/ has_time_format
    IN availability_response # "" /\ has_positive /\ ~has_negative

\* process_availability: the text returned and the calls made.  met tells
\* whether the scheduling service is up, what its availability endpoint
\* returns (data "none" for a failure, else the slots) and the duration of
\* the treatment.
process_availability(question, met) ==
    IF ~met.service_up
    THEN [response |-> "Error consultando disponibilidad", calls |-> <<>>]
    ELSE IF ~any_keyword(question, {"hoy"})
    THEN [response |-> "Por favor especifica la fecha", calls |-> <<>>]
    ELSE IF met.data = "none"
    THEN [response |-> "Error consultando disponibilidad",
          calls |-> <<"check-availability">>]
    ELSE IF met.slots = <<>>
    THEN [response |-> "No hay horarios disponibles", calls |-> <<"check-availability">>]
    ELSE [response |-> IF filter_slots_by_duration(met.slots, met.duration) = <<>>
                       THEN "No hay horarios disponibles" ELSE "Horarios disponibles",
          calls |-> <<"check-availability">>]

\* process_schedule_with_selenium: the calls made, in order, and the form
\* of the reply.
process_schedule_with_selenium(question, history, met) ==
    LET intent == contains_schedule_intent(question)
        a == IF intent THEN process_availability(question, met)
             ELSE [response |-> "", calls |-> <<>>]
        looked == (IF intent THEN <<"availability_agent">> ELSE <<>>) \o a.calls
                      \o <<"chat_model">>
        should_proceed_selenium ==
            /\ contains_schedule_intent(question)
            /\ should_use_selenium(question, history)
            /\ has_available_slots_confirmation(a.response)
            /\ ~is_just_availability_check(question)
    IN IF should_proceed_selenium
       THEN [available_slots |-> a.response,
             calls |-> Append(looked, "schedule-request"),
             reply |-> IF met.booking \in {"success", "requires_more_info"}
                       THEN "slots_and_booking_response"
                       ELSE "slots_and_base_response_and_note"]
       ELSE [available_slots |-> a.response, calls |-> looked, reply |-> "base_response"]

\* Requests of the process that run concurrently.
Requests == {"r1", "r2"}
IdleDelivery ==
    [pc |-> "idle", conversation_id |-> 0, message_id |-> 0, result |-> "none",
     pending |-> {}]
IdleWriter == [pc |-> "idle", messages |-> <<>>, concurrent |-> FALSE]

InitLater ==
    /\ lastSchedule = NoCall
    /\ lastRequest = NoCall
    /\ deliveries = [r \in Requests |-> IdleDelivery]
    /\ writers = [r \in Requests |-> IdleWriter]
    /\ lastHealth = NoCall
    /\ protection = [add_texts |-> 0, original_methods |-> <<>>, retrievers |-> 0]
    /\ lastWrite = NoCall
    /\ startup = [pc |-> "not_started", instance |-> FALSE, attempt |-> 0, sleeps |-> 0,
                  found_at |-> 0, passes |-> 0, pass_at |-> 0, caught |-> 0,
                  raised |-> FALSE, reported |-> FALSE]

InitAll ==
    InitConv /\ InitClock /\ InitDedup /\ InitBot /\ InitOrch /\ InitHook /\ InitRec
    /\ InitDocStore /\ InitLater

SpecConv == InitAll /\ [][NextConv]_vars

(***************************************************************************)
(* De-duplication specification.                                           *)
(***************************************************************************)
Tick ==
    /\ \E t \in Instants : t > now /\ now' = t
    /\ UNCHANGED <<convVars, dedupVars, botVars, orchVars, hookVars, recVars, docVars, laterVars>>

IsMessageAlreadyProcessed(message_id, conversation_id, fault) ==
    /\ LET r == is_message_already_processed(processed_message, now, message_id,
                                             conversation_id, fault)
           key == <<conversation_id, message_id>>
       IN /\ processed_message' = r.markers
          /\ marked' = IF message_id # 0 /\ fault = "none" /\ ~r.result
                       THEN [marked EXCEPT ![key] = now] ELSE marked
          /\ lastDedup' = [op |-> "is_message_already_processed",
                           message_id |-> message_id,
                           conversation_id |-> conversation_id,
                           fault |-> fault, at |-> now, result |-> r.result,
                           seen |-> IF message_id = 0 THEN -1 ELSE marked[key]]
    /\ UNCHANGED <<convVars, now, botVars, orchVars, hookVars, recVars, docVars, laterVars>>

NextDedup ==
    \/ Tick
    \/ \E m \in MessageIds, c \in Conversations, fault \in DedupFaults :
          IsMessageAlreadyProcessed(m, c, fault)

SpecDedup == InitAll /\ [][NextDedup]_vars

(***************************************************************************)
(* Bot-status specification.                                               *)
(***************************************************************************)
ShouldBotRespond(conversation_id, conversation_status, fault) ==
    /\ LET r == should_bot_respond(bot_status, now, conversation_id,
                                   conversation_status, fault)
       IN /\ bot_status' = r.bots
          /\ lastBot' = [op |-> "should_bot_respond", conversation_id |-> conversation_id,
                         status |-> conversation_status, fault |-> fault,
                         result |-> r.result]
    /\ UNCHANGED <<convVars, now, dedupVars, orchVars, hookVars, recVars, docVars, laterVars>>

HandleConversationUpdated(conversation_id, conversation_status, fault) ==
    /\ LET r == handle_conversation_updated(bot_status, now, conversation_id,
                                            conversation_status, fault)
       IN /\ bot_status' = r.bots
          /\ lastBot' = [op |-> "handle_conversation_updated",
                         conversation_id |-> conversation_id,
                         status |-> conversation_status, fault |-> fault,
                         result |-> r.result]
    /\ UNCHANGED <<convVars, now, dedupVars, orchVars, hookVars, recVars, docVars, laterVars>>

NextBot ==
    \/ \E c \in Conversations, s \in Statuses, fault \in BOOLEAN :
          ShouldBotRespond(c, s, fault)
    \/ \E c \in Conversations \cup {0}, s \in Statuses, fault \in BOOLEAN :
          HandleConversationUpdated(c, s, fault)

SpecBot == InitAll /\ [][NextBot]_vars

(***************************************************************************)
(* Orchestrator specification: one get_response call on a store that holds *)
(* an earlier conversation of u1 (empty, one short of the window, or a     *)
(* full window).                                                           *)
(***************************************************************************)
Questions == {BlankText, Text(1)}
Media == {<<"text", FALSE>>, <<"image", TRUE>>, <<"image", FALSE>>,
          <<"voice", TRUE>>, <<"audio", TRUE>>}
\* The caller's user id: u1, or a missing or whitespace-only id.
UserIds == {"u1", "", " "}
LoadFaults == {"none", "read"}
PersistFaults == {"none", "append", "window"}
\* What an agent can return: text without a fixed phrase, text with the
\* phrase of one agent, text with the phrases of two, and a blank string.
ReplyTexts ==
    {[kind |-> "text", form |-> "reply", n |-> 0, phrases |-> ph] :
        ph \in {{}, {"emergency"}, {"schedule"}, {"sales", "support"}}}
        \cup {[kind |-> "blank", form |-> "reply", n |-> 0, phrases |-> {}]}

Earlier(user_id, k) ==
    [i \in 1..k |-> StoredMessage(TurnRole(user_id, i), Text(100 + i))]

\* u2 holds a short conversation; the handles are cached, or lost with a
\* restart of the process.
InitStore ==
    /\ \E k \in {0, max_messages - 1, max_messages} :
          chat_history = [u \in Users |-> IF u = "u1" THEN Earlier(u, k)
                                                     ELSE Earlier(u, 3)]
    /\ message_histories \in {{}, {u \in Users : chat_history[u] # <<>>}}
    /\ added = [u \in Users |-> <<>>]
    /\ faulted = {}
    /\ lastAdd = NoCall

DefaultEnv ==
    [load |-> "none", router |-> [kind |-> "text", intent |-> "missing",
                                  confidence |-> [kind |-> "missing", value |-> 0]],
     agent_fails |-> FALSE, fallback_fails |-> FALSE,
     text |-> [kind |-> "text", form |-> "reply", n |-> 0, phrases |-> {}],
     f1 |-> "none", f2 |-> "none"]

\* One get_response call with what it met.
Respond(question, media, user_id, env) ==
    LET r == get_response(chat_history, message_histories, question, user_id,
                          media[1], media[2], env)
    IN /\ chat_history' = r.hist
       /\ message_histories' = r.cache
       /\ lastResponse' = r.call

\* The inputs a call does not read are held at their defaults: a rejected
\* call meets nothing, a call without fallback does not meet the fallback's
\* outcome, a call whose orchestration raises stores nothing.
GetResponse ==
    /\ lastResponse.op = "none"
    /\ \E question \in Questions, media \in Media, user_id \in UserIds :
          IF IsBlank(processed_question(question, media[1], media[2]))
                \/ BlankUserId(user_id)
          THEN Respond(question, media, user_id, DefaultEnv)
          ELSE \E load \in LoadFaults, router \in RouterOutputs,
                  agent_fails \in BOOLEAN, fallback_fails \in BOOLEAN :
                  LET o == orchestrate(router, agent_fails, fallback_fails)
                      env == [DefaultEnv EXCEPT !.load = load, !.router = router,
                                                !.agent_fails = agent_fails,
                                                !.fallback_fails = fallback_fails]
                  IN /\ fallback_fails => (o.dispatched = "error" \/ agent_fails)
                     /\ agent_fails => o.dispatched # "error"
                     /\ IF o.raised
                        THEN Respond(question, media, user_id, env)
                        ELSE \E text \in ReplyTexts, f1 \in PersistFaults,
                                f2 \in PersistFaults :
                                /\ IsBlank(text) => f2 = "none"
                                /\ Respond(question, media, user_id,
                                           [env EXCEPT !.text = text, !.f1 = f1,
                                                       !.f2 = f2])
    /\ UNCHANGED <<added, faulted, lastAdd, now, dedupVars, botVars, hookVars, recVars, docVars, laterVars>>

NextOrch == GetResponse

InitOrchStore ==
    InitStore /\ InitClock /\ InitDedup /\ InitBot /\ InitOrch /\ InitHook /\ InitRec
    /\ InitDocStore /\ InitLater

SpecOrch == InitOrchStore /\ [][NextOrch]_vars

(***************************************************************************)
(* Inbound-pipeline specification: message events of Chatwoot processed    *)
(* one after the other.                                                    *)
(***************************************************************************)
MessageTypes == {"incoming", "outgoing", "none"}
HookStatuses == {"open", "pending", "resolved", "Open", "none"}
ConversationData ==
    {[kind |-> k, id |-> 0] : k \in {"missing", "noid", "badid"}}
        \cup {[kind |-> "ok", id |-> 7]}
Contents == {"text", "empty", "blank", "null"}
HookMessageIds == {0, 42}
\* Contact data resolving to u1 by the first place, to u2 by the third
\* after an id of invalid format, and to nothing because the sender is an
\* agent.
ContactData ==
    {[contact_inbox |-> Id12, meta_sender |-> Absent, sender |-> Absent,
      sender_type |-> "contact", malformed |-> "none"],
     [contact_inbox |-> IdAbc, meta_sender |-> Absent, sender |-> Contact7,
      sender_type |-> "contact", malformed |-> "none"],
     [contact_inbox |-> Absent, meta_sender |-> Absent, sender |-> Id12,
      sender_type |-> "agent", malformed |-> "none"]}
AttachmentLists ==
    {<<>>,
     <<[type |-> "image", result |-> "text"]>>,
     <<[type |-> "audio", result |-> "failed"]>>,
     <<[type |-> "file", result |-> "none"], [type |-> "image", result |-> "empty"],
       [type |-> "audio", result |-> "text"]>>,
     <<[type |-> "none", result |-> "none"]>>}
\* What get_response meets: the Support agent answers; the router and the
\* Support fallback fail; the agent answers with a blank string.
HookEnvs ==
    {DefaultEnv,
     [DefaultEnv EXCEPT !.router.kind = "raise", !.fallback_fails = TRUE],
     [DefaultEnv EXCEPT !.text = [kind |-> "blank", form |-> "reply", n |-> 0,
                                  phrases |-> {}]]}

DefaultData ==
    [message_type |-> "incoming", conversation |-> [kind |-> "ok", id |-> 7],
     status |-> "open", content |-> "text", message_id |-> 0,
     contact |-> [contact_inbox |-> Id12, meta_sender |-> Absent, sender |-> Absent,
                  sender_type |-> "contact", malformed |-> "none"],
     attachments |-> <<>>]

DefaultMet ==
    [bot_fault |-> FALSE, dedup_fault |-> "none", env |-> DefaultEnv, send |-> "200"]

\* The events of an active conversation and what their processing meets:
\* the plain text message of contact 12 that is answered and delivered, and
\* its variations in one respect at a time.
ActiveCases ==
    {[data |-> [DefaultData EXCEPT !.content = c, !.message_id = m, !.attachments = a],
      met |-> DefaultMet] :
        c \in Contents, m \in HookMessageIds, a \in AttachmentLists}
    \cup {[data |-> [DefaultData EXCEPT !.content = c, !.message_id = m,
                                        !.contact = k],
           met |-> DefaultMet] :
             c \in Contents \ {"null"}, m \in HookMessageIds, k \in ContactData}
    \cup {[data |-> [DefaultData EXCEPT !.message_id = m],
           met |-> [DefaultMet EXCEPT !.env = e, !.send = s]] :
             m \in HookMessageIds, e \in HookEnvs, s \in SendResponses}
    \cup {[data |-> [DefaultData EXCEPT !.message_id = 42],
           met |-> [DefaultMet EXCEPT !.dedup_fault = "set"]],
          [data |-> DefaultData, met |-> [DefaultMet EXCEPT !.bot_fault = TRUE]]}

\* The events that are not answered: another message type, invalid
\* conversation data, an inactive conversation.
OtherCases ==
    {[data |-> [DefaultData EXCEPT !.message_type = t, !.status = s, !.message_id = 42],
      met |-> DefaultMet] :
        t \in MessageTypes \ {"incoming"}, s \in {"open", "pending"}}
    \cup {[data |-> [DefaultData EXCEPT !.conversation = c, !.message_id = 42],
           met |-> DefaultMet] :
             c \in ConversationData}
    \cup {[data |-> [DefaultData EXCEPT !.status = s, !.message_id = 42],
           met |-> [DefaultMet EXCEPT !.bot_fault = f]] :
             s \in HookStatuses, f \in BOOLEAN}

\* One process_incoming_message call.  The webhook route builds a new
\* ConversationManager for every request, so the call starts without cached
\* history handles and leaves none behind.
ProcessIncomingMessage(data, met) ==
    /\ events < MaxEvents
    /\ LET r == process_incoming_message(bot_status, processed_message, chat_history,
                                         outbox, now, data, met)
       IN /\ bot_status' = r.bots
          /\ processed_message' = r.markers
          /\ chat_history' = r.hist
          /\ outbox' = r.out
          /\ lastHook' = r.call
    /\ events' = events + 1
    /\ UNCHANGED <<message_histories, added, faulted, lastAdd, now, lastDedup, marked,
                   lastBot, orchVars, recVars, docVars, laterVars>>

MessageCreated ==
    \E case \in ActiveCases \cup OtherCases :
        ProcessIncomingMessage(case.data, case.met)

NextHook == MessageCreated

SpecHook == InitAll /\ [][NextHook]_vars

(***************************************************************************)
(* Contact specification: one incoming event on an active conversation,    *)
(* its three contact places holding any combination of values.             *)
(***************************************************************************)
ContactValues == {Absent, Id12, Padded12, Spaces, IdAbc, Contact7}
SenderTypes == {"contact", "agent"}
MalformedPlaces == {"none", "contact_inbox", "meta", "sender"}

AllContactData ==
    [contact_inbox : ContactValues, meta_sender : ContactValues, sender : ContactValues,
     sender_type : SenderTypes, malformed : MalformedPlaces]

ContactEvent(contact) ==
    /\ events = 0
    /\ ProcessIncomingMessage([DefaultData EXCEPT !.contact = contact], DefaultMet)

NextContact == \E contact \in AllContactData : ContactEvent(contact)

SpecContact == InitAll /\ [][NextContact]_vars

(***************************************************************************)
(* Recovery specification: threads of the process run operations on the    *)
(* index concurrently.  A step is one access to the shared index, cache or *)
(* lock.  The stack of a thread holds the positions its calls return to.   *)
(***************************************************************************)
\* The state in which the threads start: the knowledge base loaded or
\* empty, the index as loaded, emptied or lost.
InitRecovery ==
    /\ InitConv /\ InitClock /\ InitDedup /\ InitBot /\ InitOrch /\ InitHook
    /\ InitDocStore /\ InitLater
    /\ stored \in {0, MaxChunks}
    /\ index \in {[exists |-> TRUE, num_docs |-> stored],
                  [exists |-> TRUE, num_docs |-> 0],
                  [exists |-> FALSE, num_docs |-> 0]}
    /\ auto_recovery_enabled \in BOOLEAN
    /\ health_cache = EmptyCache
    /\ recovery_lock = "free"
    /\ threads = [t \in Threads |-> Idle]
    /\ rebuilds = [drops |-> 0, creates |-> 0]

otherVars0 ==
    <<convVars, dedupVars, botVars, orchVars, hookVars, docVars, lastSchedule,
      lastRequest, deliveries, writers>>
otherVars == <<otherVars0, startVars>>

Entry(op) ==
    IF op = "force_recovery" THEN "reconstruct"
    ELSE IF op = "ensure_index_healthy" THEN "ensure"
    ELSE IF op = "protected_retriever_invoke" THEN "pre_check"
    ELSE "construct"

\* A thread starts an operation.  The admin route clears the health cache
\* before it calls the reconstruction.
Start(t, op) ==
    /\ threads[t].pc = "idle"
    /\ op \in ThreadOperations(t)
    /\ threads' = [threads EXCEPT ![t] = [Idle EXCEPT !.op = op, !.pc = Entry(op)]]
    /\ health_cache' = IF op = "force_recovery" THEN EmptyCache ELSE health_cache
    /\ UNCHANGED <<index, stored, auto_recovery_enabled, recovery_lock, rebuilds, now,
                   otherVars>>

\* reconstruct_index_from_stored_data, entry: the enabled check.
ReconstructEnter(t) ==
    /\ threads[t].pc = "reconstruct"
    /\ LET th == [threads[t] EXCEPT !.behind = recovery_lock]
       IN threads' = [threads EXCEPT ![t] =
                         IF ~auto_recovery_enabled THEN Return(th, "false")
                         ELSE [th EXCEPT !.pc = "lock"]]
    /\ UNCHANGED <<index, stored, auto_recovery_enabled, health_cache, recovery_lock,
                   rebuilds, now, otherVars>>

MutLockAlwaysFree(lock) == TRUE

\* threading.Lock: acquire succeeds only on a released lock.
lock_is_free(lock) == lock = "free"

\* with self._recovery_lock
AcquireRecoveryLock(t) ==
    /\ threads[t].pc = "lock"
    /\ lock_is_free(recovery_lock)
    /\ recovery_lock' = t
    /\ threads' = [threads EXCEPT ![t].pc = "stored_docs"]
    /\ UNCHANGED <<index, stored, auto_recovery_enabled, health_cache, rebuilds, now,
                   otherVars>>

\* _get_stored_documents; a failure of the scan yields the empty list.
GetStoredDocuments(t, fault) ==
    /\ threads[t].pc = "stored_docs"
    /\ IF stored = 0 \/ fault
       THEN /\ threads' = [threads EXCEPT ![t] = Return(threads[t], "false")]
            /\ recovery_lock' = "free"
       ELSE /\ threads' = [threads EXCEPT ![t].pc = "drop"]
            /\ UNCHANGED recovery_lock
    /\ UNCHANGED <<index, stored, auto_recovery_enabled, health_cache, rebuilds, now,
                   otherVars>>

\* dropindex(delete_documents=False); its failure on a missing definition
\* is ignored.
DropIndex(t) ==
    /\ threads[t].pc = "drop"
    /\ index' = [exists |-> FALSE, num_docs |-> 0]
    /\ rebuilds' = [rebuilds EXCEPT !.drops = IF index.exists THEN @ + 1 ELSE @]
    /\ threads' = [threads EXCEPT ![t].pc = "recreate",
                                  ![t].dropped = IF index.exists THEN @ + 1 ELSE @]
    /\ stored' = dropindex(stored, FALSE)
    /\ UNCHANGED <<auto_recovery_enabled, health_cache, recovery_lock, now, otherVars>>

\* After the sleep: VectorstoreService() recreates the definition and the
\* cache is cleared, or the construction fails.
RecreateIndex(t, ok) ==
    /\ threads[t].pc = "recreate"
    /\ IF ok
       THEN /\ index' = created(index, stored)
            /\ health_cache' = EmptyCache
            /\ rebuilds' = [rebuilds EXCEPT !.creates = IF index.exists THEN @ ELSE @ + 1]
            /\ threads' = [threads EXCEPT ![t] = Return(threads[t], "true")]
       ELSE /\ threads' = [threads EXCEPT ![t] = Return(threads[t], "false")]
            /\ UNCHANGED <<index, health_cache, rebuilds>>
    /\ recovery_lock' = "free"
    /\ UNCHANGED <<stored, auto_recovery_enabled, now, otherVars>>

MutRecoverWhenDisabled(status, enabled) ==
    IF status.needs_recovery THEN "reconstruct" ELSE "verdict"

\* ensure_index_healthy, the branch taken on a verdict.
ensure_branch(status, enabled) ==
    IF status.needs_recovery /\ enabled THEN "reconstruct" ELSE "verdict"

\* ensure_index_healthy: the probe, then the reconstruction or the verdict.
EnsureIndexHealthy(t, fault) ==
    /\ threads[t].pc = "ensure"
    /\ LET v == verify_index_health(health_cache, now, index, stored, fault)
       IN /\ health_cache' = v.cache
          /\ threads' = [threads EXCEPT ![t] =
                IF ensure_branch(v.status, auto_recovery_enabled) = "reconstruct"
                THEN [@ EXCEPT !.pc = "reconstruct", !.health = v.status,
                               !.ensured = "reconstruct"]
                ELSE Return([@ EXCEPT !.health = v.status, !.ensured = "verdict"],
                            IF v.status.healthy THEN "true" ELSE "false")]
    /\ UNCHANGED <<index, stored, auto_recovery_enabled, recovery_lock, rebuilds, now,
                   otherVars>>

\* protected_retriever_invoke, the check before the search.
ProtectedPreCheck(t, fault) ==
    /\ threads[t].pc = "pre_check"
    /\ IF auto_recovery_enabled
       THEN LET v == verify_index_health(health_cache, now, index, stored, fault)
            IN /\ health_cache' = v.cache
               /\ threads' = [threads EXCEPT ![t] =
                     IF ~v.status.healthy /\ v.status.stored_documents > 0
                     THEN [@ EXCEPT !.pc = "ensure", !.ret = <<"invoke">> \o @,
                                    !.health = v.status]
                     ELSE [@ EXCEPT !.pc = "invoke", !.health = v.status]]
       ELSE /\ threads' = [threads EXCEPT ![t].pc = "invoke"]
            /\ UNCHANGED health_cache
    /\ UNCHANGED <<index, stored, auto_recovery_enabled, recovery_lock, rebuilds, now,
                   otherVars>>

\* original_invoke; on a failure the handler calls the reconstruction.
ProtectedInvoke(t, fault) ==
    /\ threads[t].pc = "invoke"
    /\ threads' = [threads EXCEPT ![t] =
          IF query_succeeds(index, fault)
          THEN Return([@ EXCEPT !.invokes = @ + 1], "docs")
          ELSE [@ EXCEPT !.invokes = @ + 1, !.failed = TRUE, !.pc = "reconstruct",
                         !.reconstructions = @ + 1, !.ret = <<"recovered">> \o @]]
    /\ UNCHANGED <<index, stored, auto_recovery_enabled, health_cache, recovery_lock,
                   rebuilds, now, otherVars>>

\* The reconstruction has returned: retry, or return the empty list.
ProtectedRecovered(t) ==
    /\ threads[t].pc = "recovered"
    /\ threads' = [threads EXCEPT ![t] =
          IF should_retry(threads[t].rv)
          THEN [@ EXCEPT !.pc = "retry", !.recovered = threads[t].rv]
          ELSE Return([@ EXCEPT !.recovered = threads[t].rv], "empty")]
    /\ UNCHANGED <<index, stored, auto_recovery_enabled, health_cache, recovery_lock,
                   rebuilds, now, otherVars>>

\* The one retry of original_invoke.
ProtectedRetry(t, fault) ==
    /\ threads[t].pc = "retry"
    /\ threads' = [threads EXCEPT ![t] =
          IF query_succeeds(index, fault)
          THEN Return([@ EXCEPT !.retries = @ + 1, !.retried = "ok"], "docs")
          ELSE Return([@ EXCEPT !.retries = @ + 1, !.retried = "failed"], "empty")]
    /\ UNCHANGED <<index, stored, auto_recovery_enabled, health_cache, recovery_lock,
                   rebuilds, now, otherVars>>

\* The request builds its VectorstoreService (the search route, or the
\* MultiAgentSystem of a webhook request with its retriever).
ConstructService(t) ==
    /\ threads[t].pc = "construct"
    /\ index' = created(index, stored)
    /\ threads' = [threads EXCEPT ![t].pc =
                        IF threads[t].op = "check_health" THEN "check" ELSE "query"]
    /\ UNCHANGED <<stored, auto_recovery_enabled, health_cache, recovery_lock, rebuilds,
                   now, otherVars>>

\* VectorstoreService.search, or invoke of the retriever of get_retriever:
\* the exception of the query reaches the caller.
Search(t, fault) ==
    /\ threads[t].pc = "query"
    /\ LET window == ~index.exists /\ \E u \in Threads : threads[u].pc = "recreate"
           th == [threads[t] EXCEPT !.in_window = window]
       IN threads' = [threads EXCEPT ![t] =
             IF query_succeeds(index, fault)
             THEN Return(th, "docs")
             ELSE Return([th EXCEPT !.raised = TRUE], "raised")]
    /\ UNCHANGED <<index, stored, auto_recovery_enabled, health_cache, recovery_lock,
                   rebuilds, now, otherVars>>

\* VectorstoreService.check_health of the health route.
CheckHealth(t, fault) ==
    /\ threads[t].pc = "check"
    /\ threads' = [threads EXCEPT ![t] =
          Return([@ EXCEPT !.health = check_health(index, stored, fault)], "checked")]
    /\ UNCHANGED <<index, stored, auto_recovery_enabled, health_cache, recovery_lock,
                   rebuilds, now, otherVars>>

\* A health-check interval passes.
Pass ==
    /\ now < MaxIntervals * health_check_interval
    /\ now' = now + health_check_interval
    /\ UNCHANGED <<recVars, otherVars>>

NextRecovery ==
    \/ \E t \in Threads, op \in Operations : Start(t, op)
    \/ \E t \in Threads : ReconstructEnter(t)
    \/ \E t \in Threads : AcquireRecoveryLock(t)
    \/ \E t \in Threads, fault \in BOOLEAN : GetStoredDocuments(t, fault)
    \/ \E t \in Threads : DropIndex(t)
    \/ \E t \in Threads, ok \in BOOLEAN : RecreateIndex(t, ok)
    \/ \E t \in Threads, fault \in BOOLEAN : EnsureIndexHealthy(t, fault)
    \/ \E t \in Threads, fault \in BOOLEAN : ProtectedPreCheck(t, fault)
    \/ \E t \in Threads, fault \in BOOLEAN : ProtectedInvoke(t, fault)
    \/ \E t \in Threads : ProtectedRecovered(t)
    \/ \E t \in Threads, fault \in BOOLEAN : ProtectedRetry(t, fault)
    \/ \E t \in Threads : ConstructService(t)
    \/ \E t \in Threads, fault \in BOOLEAN : Search(t, fault)
    \/ \E t \in Threads, fault \in BOOLEAN : CheckHealth(t, fault)
    \/ Pass

SpecRecovery == InitRecovery /\ [][NextRecovery]_vars

(***************************************************************************)
(* Document specification: the calls of the documents routes on a store    *)
(* that may already hold records of earlier runs.                          *)
(***************************************************************************)
\* Number of registered changes explored.
MaxChanges == 3

\* Records found in the store at start-up.
StoredDocuments ==
    {{}, {[doc_id |-> "d3", content |-> "c", metadata |-> "", chunk_count |-> 1]}}
StoredVectors ==
    {{}} \cup {{[key |-> 1, doc_id |-> o[1], metadata |-> o[2]]} :
                o \in {<<"d3", "">>, <<"", "d3">>, <<"d1", "d3">>, <<"", "">>,
                       <<"", "{}">>, <<"", "invalid">>}}

InitDocs ==
    /\ InitConv /\ InitClock /\ InitDedup /\ InitBot /\ InitOrch /\ InitHook /\ InitRec
    /\ InitLater
    /\ documents \in StoredDocuments
    /\ vectors \in StoredVectors
    /\ vectorstore_version = 0
    /\ doc_changes = {}
    /\ lastDoc = NoDocCall

nonDocVars == <<convVars, now, dedupVars, botVars, orchVars, hookVars, recVars,
               laterVars>>

\* POST /documents
AddDocument(content, metadata, n, form, fault) ==
    /\ Cardinality(vectors) + n <= MaxVectors
    /\ vectorstore_version < MaxChanges
    /\ LET r == add_document(documents, vectors, vectorstore_version, doc_changes,
                             content, metadata, n, form, fault)
       IN /\ documents' = r.documents
          /\ vectors' = r.vectors
          /\ vectorstore_version' = r.version
          /\ doc_changes' = r.changes
          /\ lastDoc' = [op |-> "add_document", content |-> content,
                         metadata |-> metadata, raised |-> r.raised,
                         doc_id |-> IF r.raised THEN "" ELSE r.doc_id,
                         chunk_count |-> r.chunk_count, registered |-> r.registered,
                         replaced |-> IF r.raised THEN {}
                                      ELSE {d \in documents : d.doc_id = r.doc_id}]
    /\ UNCHANGED nonDocVars

\* DELETE /documents/<doc_id>
DeleteDocument(doc_id) ==
    /\ vectorstore_version < MaxChanges
    /\ LET r == delete_document(documents, vectors, vectorstore_version, doc_changes,
                                doc_id)
       IN /\ documents' = r.documents
          /\ vectors' = r.vectors
          /\ vectorstore_version' = r.version
          /\ doc_changes' = r.changes
          /\ lastDoc' = [op |-> "delete_document", doc_id |-> doc_id,
                         found |-> r.found, vectors_deleted |-> r.vectors_deleted,
                         registered |-> r.registered, removed |-> vectors \ r.vectors]
    /\ UNCHANGED nonDocVars

\* POST /documents/cleanup
CleanupOrphanedVectors(dry_run) ==
    /\ LET r == cleanup_orphaned_vectors(documents, vectors, dry_run)
       IN /\ vectors' = r.vectors
          /\ lastDoc' = [op |-> "cleanup_orphaned_vectors", dry_run |-> r.dry_run,
                         total_vectors |-> r.total_vectors,
                         total_documents |-> r.total_documents,
                         orphaned_vectors_found |-> r.orphaned_vectors_found,
                         orphaned_vectors_deleted |-> r.orphaned_vectors_deleted,
                         orphaned_samples |-> r.orphaned_samples]
    /\ UNCHANGED <<documents, vectorstore_version, doc_changes, nonDocVars>>

\* GET /documents/diagnostics
GetDiagnostics ==
    /\ LET r == get_diagnostics(documents, vectors)
       IN lastDoc' = [op |-> "get_diagnostics",
                      total_documents |-> r.total_documents,
                      total_vectors |-> r.total_vectors,
                      vectors_without_doc_id |-> r.vectors_without_doc_id,
                      documents_with_vectors |-> r.documents_with_vectors,
                      orphaned_documents |-> r.orphaned_documents,
                      orphaned_doc_samples |-> r.orphaned_doc_samples]
    /\ UNCHANGED <<documents, vectors, vectorstore_version, doc_changes, nonDocVars>>

\* The add_document calls explored: one call, varied in one respect at a time.
DefaultAdd ==
    [content |-> "a", metadata |-> "", n |-> 1, form |-> "fields", fault |-> "none"]

AddCases ==
    {[DefaultAdd EXCEPT !.content = c, !.form = f] : c \in DocContents, f \in ChunkForms}
    \cup {[DefaultAdd EXCEPT !.metadata = m] : m \in Metadatas}
    \cup {[DefaultAdd EXCEPT !.n = n] : n \in ChunksPerDocument}
    \cup {[DefaultAdd EXCEPT !.fault = f] : f \in AddDocumentFaults}

NextDocs ==
    \/ \E c \in AddCases : AddDocument(c.content, c.metadata, c.n, c.form, c.fault)
    \/ \E doc_id \in DocIds : DeleteDocument(doc_id)
    \/ \E dry_run \in BOOLEAN : CleanupOrphanedVectors(dry_run)
    \/ GetDiagnostics

SpecDocs == InitDocs /\ [][NextDocs]_vars

(***************************************************************************)
(* Chunk specification: successful add_document and delete_document calls  *)
(* on a store that starts empty.  create_chunks splits a content the same  *)
(* way every time, so a content always yields the same number of chunks.   *)
(***************************************************************************)
\* len(texts) of create_chunks(content)
chunks_of(content) == IF content = "a" THEN 1 ELSE 2

ChunkCases ==
    [content : DocContents, metadata : Metadatas, form : ChunkForms]

NextChunks ==
    \/ \E c \in ChunkCases :
          AddDocument(c.content, c.metadata, chunks_of(c.content), c.form, "none")
    \/ \E doc_id \in DocIds : DeleteDocument(doc_id)

SpecChunks == InitAll /\ [][NextChunks]_vars

(***************************************************************************)
(* HTTP routes (app/routes/webhook.py, app/routes/admin.py) and their      *)
(* decorators (app/utils/decorators.py).  A response is its status code    *)
(* and its message; the message "exception_text" is str(e) of the          *)
(* exception that was caught.                                              *)
(***************************************************************************)
\* Values of the X-API-Key header and of the API_KEY setting; "None" is an
\* absent header or an unset environment variable.
ApiKeys == {"None", "", "k1", "k2"}

MutEqualKeysPass(api_key, configured) == api_key = configured

\* require_api_key: the request passes the gate.
require_api_key(api_key, configured) ==
    ~(api_key \in {"None", ""}) /\ api_key = configured

Response(status, message) == [status |-> status, message |-> message]

\* handle_errors: what the decorator returns for the outcome of the handler.
handle_errors(outcome) ==
    IF outcome.raised = "ValueError" THEN Response(400, "exception_text")
    ELSE IF outcome.raised # "none" THEN Response(500, "Internal server error")
    ELSE outcome.response

\* chatwoot_webhook: the outcome of the handler's try block for an event of
\* the given type, given whether the service call raised and what
\* handle_conversation_updated returned.  Every exception is caught by the
\* handler itself.
chatwoot_webhook(event_type, raised, success) ==
    [raised |-> "none",
     response |->
        IF raised THEN Response(500, "Error interno del servidor")
        ELSE IF event_type = "conversation_updated"
        THEN Response(IF success THEN 200 ELSE 400, "conversation_updated_processed")
        ELSE IF event_type # "message_created" THEN Response(200, "ignored_event_type")
        ELSE Response(200, "result")]

RecoveryFaults == {"none", "scan", "recreate"}

\* force_vectorstore_recovery run by one request alone: the cache is
\* cleared, the index is reconstructed and, on success, probed for the
\* response.
force_vectorstore_recovery(idx, stored_count, enabled, rb, t, fault) ==
    IF ~enabled \/ stored_count = 0 \/ fault = "scan"
    THEN [index |-> idx, cache |-> EmptyCache, rebuilds |-> rb,
          response |-> Response(500, "Index recovery failed")]
    ELSE LET dropped == [exists |-> FALSE, num_docs |-> 0]
             rb1 == [rb EXCEPT !.drops = IF idx.exists THEN @ + 1 ELSE @]
         IN IF fault = "recreate"
            THEN [index |-> dropped, cache |-> EmptyCache, rebuilds |-> rb1,
                  response |-> Response(500, "Index recovery failed")]
            ELSE LET rebuilt == created(dropped, stored_count)
                     h == verify_index_health(EmptyCache, t, rebuilt, stored_count, FALSE)
                 IN [index |-> rebuilt, cache |-> h.cache,
                     rebuilds |-> [rb1 EXCEPT !.creates = @ + 1],
                     response |-> Response(200, "Index recovery completed successfully")]

(***************************************************************************)
(* Route specification: requests to the webhook route and to the two       *)
(* API-key gated admin routes, one after the other.                        *)
(***************************************************************************)
EventTypes == {"message_created", "conversation_updated", "message_updated"}

\* The events sent to the webhook and what their processing meets.
RouteCases ==
    {[data |-> [DefaultData EXCEPT !.message_id = 42],
      met |-> [DefaultMet EXCEPT !.send = s]] : s \in SendResponses}
    \cup {[data |-> [DefaultData EXCEPT !.conversation = c], met |-> DefaultMet] :
            c \in ConversationData}
    \cup {[data |-> [DefaultData EXCEPT !.contact = k], met |-> DefaultMet] :
            k \in ContactData}
    \cup {[data |-> [DefaultData EXCEPT !.status = s], met |-> DefaultMet] :
            s \in {"pending", "none"}}
    \cup {[data |-> [DefaultData EXCEPT !.message_type = "outgoing"], met |-> DefaultMet],
          [data |-> [DefaultData EXCEPT !.content = "null"], met |-> DefaultMet],
          [data |-> [DefaultData EXCEPT !.content = "empty"], met |-> DefaultMet]}

\* The header sent and the key configured.
KeyCases ==
    {<<"k1", "k1">>, <<"k2", "k1">>, <<"", "k1">>, <<"None", "k1">>,
     <<"None", "None">>, <<"k1", "None">>, <<"", "">>}

\* POST /webhook/chatwoot.
ChatwootWebhook(event_type, data, met) ==
    /\ events < MaxEvents
    /\ events' = events + 1
    /\ LET id == IF data.conversation.kind = "ok" THEN data.conversation.id ELSE 0
           u == handle_conversation_updated(bot_status, now, id, data.status,
                                            met.bot_fault)
           r == process_incoming_message(bot_status, processed_message, chat_history,
                                         outbox, now, data, met)
           Request(raised, success) ==
               [op |-> "chatwoot_webhook", event_type |-> event_type,
                api_key |-> "None", configured |-> "None", handler_ran |-> TRUE,
                response |-> handle_errors(chatwoot_webhook(event_type, raised, success))]
       IN IF event_type = "conversation_updated"
          THEN /\ bot_status' = u.bots
               /\ lastHook' = [op |-> "handle_conversation_updated", data |-> data,
                               met |-> met, at |-> now, result |-> u.result]
               /\ lastRequest' = Request(FALSE, u.result)
               /\ UNCHANGED <<processed_message, chat_history, outbox>>
          ELSE IF event_type # "message_created"
          THEN /\ lastHook' = NoCall
               /\ lastRequest' = Request(FALSE, FALSE)
               /\ UNCHANGED <<bot_status, processed_message, chat_history, outbox>>
          ELSE /\ bot_status' = r.bots
               /\ processed_message' = r.markers
               /\ chat_history' = r.hist
               /\ outbox' = r.out
               /\ lastHook' = r.call
               /\ lastRequest' = Request(r.call.raised, FALSE)
    /\ UNCHANGED <<message_histories, added, faulted, lastAdd, now, lastDedup, marked,
                   lastBot, orchVars, recVars, docVars, startVars, lastSchedule, deliveries,
                   writers>>

\* POST /admin/vectorstore/force-recovery.
ForceVectorstoreRecovery(api_key, configured, fault) ==
    /\ events < MaxEvents
    /\ events' = events + 1
    /\ LET r == force_vectorstore_recovery(index, stored, auto_recovery_enabled,
                                           rebuilds, now, fault)
           passes == require_api_key(api_key, configured)
       IN /\ index' = IF passes THEN r.index ELSE index
          /\ health_cache' = IF passes THEN r.cache ELSE health_cache
          /\ rebuilds' = IF passes THEN r.rebuilds ELSE rebuilds
          /\ lastRequest' =
                [op |-> "force_vectorstore_recovery", event_type |-> "none",
                 api_key |-> api_key, configured |-> configured, handler_ran |-> passes,
                 response |-> handle_errors(
                     [raised |-> "none",
                      response |-> IF passes THEN r.response
                                   ELSE Response(401, "Invalid API key")])]
    /\ UNCHANGED <<convVars, now, dedupVars, botVars, orchVars, lastHook, outbox, stored,
                   auto_recovery_enabled, recovery_lock, threads, docVars, startVars, lastSchedule,
                   deliveries, writers>>

\* POST /admin/system/reset.
ResetSystem(api_key, configured) ==
    /\ events < MaxEvents
    /\ events' = events + 1
    /\ LET passes == require_api_key(api_key, configured)
       IN /\ processed_message' = IF passes THEN [p \in Pairs |-> 0]
                                            ELSE processed_message
          /\ bot_status' = IF passes THEN [c \in Conversations |-> NoRecord]
                                     ELSE bot_status
          /\ health_cache' = IF passes THEN EmptyCache ELSE health_cache
          /\ lastRequest' =
                [op |-> "reset_system", event_type |-> "none",
                 api_key |-> api_key, configured |-> configured, handler_ran |-> passes,
                 response |-> handle_errors(
                     [raised |-> "none",
                      response |-> IF passes THEN Response(200, "System reset completed")
                                   ELSE Response(401, "Invalid API key")])]
    /\ UNCHANGED <<convVars, now, lastDedup, marked, lastBot, orchVars, lastHook, outbox,
                   index, stored, auto_recovery_enabled, recovery_lock, threads, rebuilds,
                   docVars, startVars, lastSchedule, deliveries, writers>>

NextRoutes ==
    \/ \E case \in RouteCases : ChatwootWebhook("message_created", case.data, case.met)
    \/ \E event_type \in EventTypes \ {"message_created"}, case \in RouteCases :
          ChatwootWebhook(event_type, case.data, case.met)
    \/ \E keys \in KeyCases, fault \in RecoveryFaults :
          ForceVectorstoreRecovery(keys[1], keys[2], fault)
    \/ \E keys \in KeyCases : ResetSystem(keys[1], keys[2])

SpecRoutes == InitRecovery /\ [][NextRoutes]_vars

(***************************************************************************)
(* Delivery specification: the webhook requests of the server run          *)
(* concurrently; each request runs is_message_already_processed as two     *)
(* commands on the shared Redis (EXISTS, then SET with expiry), and then   *)
(* the rest of process_incoming_message.                                   *)
(***************************************************************************)
\* is_message_already_processed, the EXISTS command: a request takes up the
\* delivery of a message and checks its marker.  pending are the requests
\* for the same message that are between their EXISTS and their SET.
CheckMarker(r, conversation_id, message_id) ==
    /\ deliveries[r].pc = "idle"
    /\ LET key == <<conversation_id, message_id>>
           found == marker_exists(processed_message, now, key)
       IN deliveries' = [deliveries EXCEPT ![r] =
             [pc |-> IF found THEN "done" ELSE "set",
              conversation_id |-> conversation_id, message_id |-> message_id,
              result |-> IF found THEN "processed" ELSE "none",
              pending |-> {q \in Requests \ {r} :
                              /\ deliveries[q].pc = "set"
                              /\ deliveries[q].conversation_id = conversation_id
                              /\ deliveries[q].message_id = message_id}]]
    /\ UNCHANGED <<convVars, now, dedupVars, botVars, orchVars, hookVars, recVars,
                   docVars, startVars, lastSchedule, lastRequest, writers>>

\* is_message_already_processed, the SET command and the return of False.
SetMarker(r) ==
    /\ deliveries[r].pc = "set"
    /\ LET key == <<deliveries[r].conversation_id, deliveries[r].message_id>>
       IN processed_message' = [processed_message EXCEPT
                                   ![key] = now + PROCESSED_MESSAGE_TTL]
    /\ deliveries' = [deliveries EXCEPT ![r].pc = "answer",
                                        ![r].result = "not_processed"]
    /\ UNCHANGED <<convVars, now, lastDedup, marked, botVars, orchVars, hookVars,
                   recVars, docVars, startVars, lastSchedule, lastRequest, writers>>

\* The steps of process_incoming_message after the check: the contact, the
\* reply of the orchestrator and its delivery.
Answer(r) ==
    /\ deliveries[r].pc = "answer"
    /\ LET data == [DefaultData EXCEPT !.conversation.id = deliveries[r].conversation_id]
           p == process_incoming_message(bot_status, processed_message, chat_history,
                                         outbox, now, data, DefaultMet)
       IN /\ bot_status' = p.bots
          /\ chat_history' = p.hist
          /\ outbox' = p.out
          /\ lastHook' = p.call
    /\ deliveries' = [deliveries EXCEPT ![r].pc = "done"]
    /\ UNCHANGED <<message_histories, added, faulted, lastAdd, now, dedupVars, lastBot,
                   orchVars, events, recVars, docVars, startVars, lastSchedule, lastRequest,
                   writers>>

NextDeliveries ==
    \E r \in Requests :
        \/ \E p \in Pairs : CheckMarker(r, p[1], p[2])
        \/ SetMarker(r)
        \/ Answer(r)

SpecDeliveries == InitAll /\ [][NextDeliveries]_vars

(***************************************************************************)
(* Writer specification: two requests call add_message for the same user   *)
(* id at the same time, each through its own ConversationManager, on a     *)
(* history that is full.  Every command on the Redis list is a step: the   *)
(* push of the new message, the read of the list, the delete, and one push *)
(* per message written back.                                               *)
(***************************************************************************)
\* The message a request adds.
WriterContent(r) == Text(IF r = "r1" THEN 21 ELSE 22)

FullHistory == [i \in 1..max_messages |-> [role |-> TurnRole("u1", i), content |-> Text(i)]]

InitWriters ==
    /\ InitClock /\ InitDedup /\ InitBot /\ InitOrch /\ InitHook /\ InitRec
    /\ InitDocStore /\ InitLater
    /\ added = [u \in Users |-> IF u = "u1" THEN FullHistory ELSE <<>>]
    /\ chat_history = [u \in Users |->
                          [i \in 1..Len(added[u]) |->
                              StoredMessage(added[u][i].role, added[u][i].content)]]
    /\ message_histories = {}
    /\ faulted = {}
    /\ lastAdd = NoCall

\* add_message up to history.add_user_message(content).  concurrent tells
\* whether the other request is inside add_message at that moment.  The
\* requests are interchangeable, so r1 is the one that pushes first.
PushMessage(r) ==
    /\ writers[r].pc = "idle"
    /\ r = "r2" => writers["r1"].pc # "idle"
    /\ chat_history' = [chat_history EXCEPT !["u1"] =
                           Append(@, StoredMessage("user", WriterContent(r)))]
    /\ added' = [added EXCEPT !["u1"] =
                    Append(@, [role |-> "user", content |-> WriterContent(r)])]
    /\ writers' = [writers EXCEPT ![r] =
                      [pc |-> "read", messages |-> <<>>,
                       concurrent |-> \E q \in Requests \ {r} :
                                         writers[q].pc \notin {"idle", "done"}]]
    /\ UNCHANGED <<message_histories, faulted, lastAdd, now, dedupVars, botVars, orchVars,
                   hookVars, recVars, docVars, startVars, lastSchedule, lastRequest, deliveries>>

\* _apply_message_window: messages = history.messages and the length test.
ReadMessages(r) ==
    /\ writers[r].pc = "read"
    /\ LET messages == chat_history["u1"]
       IN writers' = [writers EXCEPT ![r] =
                         IF Len(messages) > max_messages
                         THEN [@ EXCEPT !.pc = "clear",
                                        !.messages = messages_to_keep(messages)]
                         ELSE [@ EXCEPT !.pc = "done"]]
    /\ UNCHANGED <<convVars, now, dedupVars, botVars, orchVars, hookVars, recVars,
                   docVars, startVars, lastSchedule, lastRequest, deliveries>>

\* history.clear()
ClearHistory(r) ==
    /\ writers[r].pc = "clear"
    /\ chat_history' = [chat_history EXCEPT !["u1"] = <<>>]
    /\ writers' = [writers EXCEPT ![r].pc = "readd"]
    /\ UNCHANGED <<message_histories, added, faulted, lastAdd, now, dedupVars, botVars,
                   orchVars, hookVars, recVars, docVars, startVars, lastSchedule, lastRequest,
                   deliveries>>

\* history.add_message(message) for the next message to keep.
ReAddMessage(r) ==
    /\ writers[r].pc = "readd"
    /\ chat_history' = [chat_history EXCEPT !["u1"] = Append(@, Head(writers[r].messages))]
    /\ writers' = [writers EXCEPT ![r].messages = Tail(@),
                                  ![r].pc = IF Len(writers[r].messages) = 1
                                            THEN "done" ELSE "readd"]
    /\ UNCHANGED <<message_histories, added, faulted, lastAdd, now, dedupVars, botVars,
                   orchVars, hookVars, recVars, docVars, startVars, lastSchedule, lastRequest,
                   deliveries>>

NextWriters ==
    \E r \in Requests :
        \/ PushMessage(r)
        \/ ReadMessages(r)
        \/ ClearHistory(r)
        \/ ReAddMessage(r)

SpecWriters == InitWriters /\ [][NextWriters]_vars

(***************************************************************************)
(* Slot specification: one _filter_slots_by_duration call on any list of   *)
(* slots.                                                                  *)
(***************************************************************************)
\* Length of the slot list of the availability endpoint.
MaxSlots == 4
SlotTimes == {<<9, 0>>, <<9, 30>>, <<10, 0>>, <<11, 0>>, <<23, 30>>}
SlotLists == UNION {[1..n -> SlotTimes \cup {<<>>}] : n \in 0..MaxSlots}
Durations == {15, 30, 45, 60, 75, 90}

FilterSlotsByDuration(available_slots, required_duration) ==
    /\ lastSchedule = NoCall
    /\ lastSchedule' = [op |-> "_filter_slots_by_duration",
                        available_slots |-> available_slots,
                        required_duration |-> required_duration,
                        result |-> filter_slots_by_duration(available_slots,
                                                            required_duration)]
    /\ UNCHANGED <<convVars, now, dedupVars, botVars, orchVars, hookVars, recVars,
                   docVars, startVars, lastRequest, deliveries, writers>>

NextSlots ==
    /\ lastSchedule = NoCall
    /\ \E available_slots \in SlotLists, required_duration \in Durations :
          FilterSlotsByDuration(available_slots, required_duration)

SpecSlots == InitAll /\ [][NextSlots]_vars

(***************************************************************************)
(* Date specification: one _find_date_in_text call on any short text, on   *)
(* an ordinary day, at the end of a month and at the end of a year.  The   *)
(* word "manana" stands for the Spanish word for tomorrow.                 *)
(***************************************************************************)
\* Words of a text.
MaxWords == 3
Vocabulary ==
    {Word("hoy"), Word("Hoy"), Word("manana"), Word("pasado"), Word("cita"),
     WrittenDate(12, 5, 2026, <<"/", "/">>), WrittenDate(3, 1, 2027, <<"-", "/">>)}
Texts == UNION {[1..n -> Vocabulary] : n \in 0..MaxWords}
Todays ==
    {WrittenDate(2, 11, 2026, <<"-", "-">>), WrittenDate(27, 2, 2027, <<"-", "-">>),
     WrittenDate(31, 12, 2026, <<"-", "-">>)}

FindDateInText(text, today) ==
    /\ lastSchedule = NoCall
    /\ lastSchedule' = [op |-> "_find_date_in_text", text |-> text, today |-> today,
                        result |-> find_date_in_text(text, today)]
    /\ UNCHANGED <<convVars, now, dedupVars, botVars, orchVars, hookVars, recVars,
                   docVars, startVars, lastRequest, deliveries, writers>>

NextDates ==
    /\ lastSchedule = NoCall
    /\ \E text \in Texts, today \in Todays : FindDateInText(text, today)

SpecDates == InitAll /\ [][NextDates]_vars

(***************************************************************************)
(* Schedule specification: one turn of the Schedule agent on any question. *)
(***************************************************************************)
Questions29 == SUBSET Fragments
Histories29 == {{}, {"me llamo ana"}, {"me llamo ana", "3001234567"}}
ScheduleMets ==
    [service_up : BOOLEAN, data : {"none", "ok"},
     slots : {<<>>, <<<<9, 0>>>>, <<<<9, 0>>, <<9, 30>>>>},
     duration : {30, 60}, booking : {"success", "requires_more_info", "failure"}]

ProcessScheduleWithSelenium(question, history, met) ==
    /\ lastSchedule = NoCall
    /\ LET r == process_schedule_with_selenium(question, history, met)
       IN lastSchedule' = [op |-> "process_schedule_with_selenium",
                           question |-> question, chat_history |-> history,
                           met |-> met, available_slots |-> r.available_slots,
                           calls |-> r.calls, reply |-> r.reply]
    /\ UNCHANGED <<convVars, now, dedupVars, botVars, orchVars, hookVars, recVars,
                   docVars, startVars, lastRequest, deliveries, writers>>

NextSchedule ==
    /\ lastSchedule = NoCall
    /\ \E question \in Questions29, history \in Histories29, met \in ScheduleMets :
          ProcessScheduleWithSelenium(question, history, met)

SpecSchedule == InitAll /\ [][NextSchedule]_vars

(***************************************************************************)
(* Health specification: one thread calls the recovery manager, one call   *)
(* after the other, while the index is lost or emptied under it.  The      *)
(* clock is observed to the second around the multiples of the             *)
(* health-check interval, where the age of the cached verdict is decided.  *)
(***************************************************************************)
MaxChecks == 2

HealthInstants ==
    {t \in UNION {{k * health_check_interval - 1, k * health_check_interval,
                   k * health_check_interval + 1} : k \in 0..MaxChecks} :
        t >= 0 /\ t <= MaxChecks * health_check_interval}

\* reconstruct_index_from_stored_data run by one thread alone: what it
\* returns, the index and the cache after it, and what it did on the way.
reconstruct_index_from_stored_data(idx, stored_count, enabled, cache, fault) ==
    IF ~enabled
    THEN [rv |-> FALSE, index |-> idx, stored |-> stored_count, cache |-> cache,
          scanned |-> FALSE, dropindex |-> FALSE]
    ELSE IF stored_count = 0 \/ fault = "scan"
    THEN [rv |-> FALSE, index |-> idx, stored |-> stored_count, cache |-> cache,
          scanned |-> TRUE, dropindex |-> FALSE]
    ELSE LET dropped == [exists |-> FALSE, num_docs |-> 0]
             left == dropindex(stored_count, FALSE)
         IN IF fault = "recreate"
            THEN [rv |-> FALSE, index |-> dropped, stored |-> left, cache |-> cache,
                  scanned |-> TRUE, dropindex |-> TRUE]
            ELSE [rv |-> TRUE, index |-> created(dropped, left), stored |-> left,
                  cache |-> EmptyCache, scanned |-> TRUE, dropindex |-> TRUE]

\* ensure_index_healthy run by one thread alone.
ensure_index_healthy(cache, t, idx, stored_count, enabled, probe_fault, fault) ==
    LET v == verify_index_health(cache, t, idx, stored_count, probe_fault)
    IN IF ensure_branch(v.status, enabled) = "reconstruct"
       THEN LET r == reconstruct_index_from_stored_data(idx, stored_count, enabled,
                                                        v.cache, fault)
            IN [rv |-> r.rv, status |-> v.status, probed |-> v.probed,
                reconstruction |-> TRUE, index |-> r.index, stored |-> r.stored,
                cache |-> r.cache, scanned |-> r.scanned, dropindex |-> r.dropindex]
       ELSE [rv |-> v.status.healthy, status |-> v.status, probed |-> v.probed,
             reconstruction |-> FALSE, index |-> idx, stored |-> stored_count,
             cache |-> v.cache, scanned |-> FALSE, dropindex |-> FALSE]

\* The record of a call of the recovery manager.
HealthCall(op, r) ==
    [op |-> op, at |-> now, before |-> health_cache, after |-> r.cache,
     index_before |-> index, index_after |-> r.index, stored_before |-> stored,
     stored_after |-> r.stored, enabled |-> auto_recovery_enabled,
     probed |-> r.probed, status |-> r.status, reconstruction |-> r.reconstruction,
     scanned |-> r.scanned, dropindex |-> r.dropindex, rv |-> r.rv]

healthFrame ==
    <<protVars, bootVars, auto_recovery_enabled, recovery_lock, threads, rebuilds, now, otherVars0>>

VerifyIndexHealth(fault) ==
    /\ LET v == verify_index_health(health_cache, now, index, stored, fault)
       IN /\ health_cache' = v.cache
          /\ lastHealth' = HealthCall("verify_index_health",
                              [cache |-> v.cache, index |-> index, stored |-> stored,
                               probed |-> v.probed,
                               status |-> v.status, reconstruction |-> FALSE,
                               scanned |-> FALSE, dropindex |-> FALSE,
                               rv |-> v.status.healthy])
    /\ UNCHANGED <<index, stored, healthFrame>>

EnsureIndexHealthyAlone(probe_fault, fault) ==
    /\ LET r == ensure_index_healthy(health_cache, now, index, stored,
                                     auto_recovery_enabled, probe_fault, fault)
       IN /\ health_cache' = r.cache
          /\ index' = r.index
          /\ stored' = r.stored
          /\ lastHealth' = HealthCall("ensure_index_healthy", r)
    /\ UNCHANGED healthFrame

ReconstructIndexFromStoredData(fault) ==
    /\ LET r == reconstruct_index_from_stored_data(index, stored, auto_recovery_enabled,
                                                   health_cache, fault)
       IN /\ health_cache' = r.cache
          /\ index' = r.index
          /\ stored' = r.stored
          /\ lastHealth' = HealthCall("reconstruct_index_from_stored_data",
                              [cache |-> r.cache, index |-> r.index,
                               stored |-> r.stored, probed |-> FALSE,
                               status |-> NoStatus, reconstruction |-> TRUE,
                               scanned |-> r.scanned, dropindex |-> r.dropindex,
                               rv |-> r.rv])
    /\ UNCHANGED healthFrame

\* The store loses the index definition or its content (a restart of Redis
\* without the index, a dropindex by hand); the chunk records stay.
LoseIndex(exists) ==
    /\ index.exists
    /\ index' = [exists |-> exists, num_docs |-> 0]
    /\ index' # index
    /\ UNCHANGED <<health_cache, stored, lastHealth, healthFrame>>

Elapse ==
    /\ \E t \in HealthInstants :
          /\ t > now
          /\ \A u \in HealthInstants : u > now => t <= u
          /\ now' = t
    /\ UNCHANGED <<recVars, otherVars0, startVars>>

NextHealth ==
    \/ \E fault \in BOOLEAN : VerifyIndexHealth(fault)
    \/ \E probe_fault \in BOOLEAN, fault \in RecoveryFaults :
          EnsureIndexHealthyAlone(probe_fault, fault)
    \/ \E fault \in RecoveryFaults : ReconstructIndexFromStoredData(fault)
    \/ \E exists \in BOOLEAN : LoseIndex(exists)
    \/ Elapse

SpecHealth == InitRecovery /\ [][NextHealth]_vars

\* The same calls when time advances and ensure_index_healthy is called again
\* and again, as the before_request hook does on every request of the
\* vector endpoints while the probe reports an unhealthy index.
EnsureIndexHealthyCalls ==
    \E probe_fault \in BOOLEAN, fault \in RecoveryFaults :
        EnsureIndexHealthyAlone(probe_fault, fault)

NextRepeated ==
    \/ \E fault \in BOOLEAN : VerifyIndexHealth(fault)
    \/ EnsureIndexHealthyCalls
    \/ \E exists \in BOOLEAN : LoseIndex(exists)
    \/ Elapse

SpecHealthFair ==
    /\ InitRecovery
    /\ [][NextRepeated]_vars
    /\ WF_vars(Elapse)
    /\ WF_vars(EnsureIndexHealthyCalls)

(***************************************************************************)
(* Protection middleware (app/services/vector_auto_recovery.py).           *)
(* protection.add_texts is the number of protected_add_texts wrappers      *)
(* around the add_texts of the vector store of the index service;          *)
(* _original_methods['add_texts'] is <<k>> when it holds the method with k *)
(* wrappers and <<>> when the key is absent.  get_retriever returns a new  *)
(* retriever on every call, so the wrapper put on the retriever of         *)
(* apply_protection is on no retriever a request obtains;                  *)
(* protection.retrievers counts the retrievers wrapped and dropped.        *)
(***************************************************************************)
MaxApplications == 2

\* The attempts of the underlying write a call can make.
WriteAttempts == 1..4

\* self.auto_recovery.ensure_index_healthy() inside a protected call.
EnsureInCall(st, met) ==
    LET r == ensure_index_healthy(st.cache, st.at, st.index, st.stored, st.enabled,
                                  met.probe_fault, met.fault)
    IN [st EXCEPT !.index = r.index, !.stored = r.stored, !.cache = r.cache,
                  !.ok = r.rv,
                  !.steps = @ \o (IF r.reconstruction
                                  THEN <<"ensure_index_healthy", "reconstruct">>
                                  ELSE <<"ensure_index_healthy">>)]

\* The add_texts of the vector store: attempt k raises when met.fails
\* holds k, and else adds a chunk record.
original_add_texts(st, met) ==
    LET k == st.writes + 1
    IN IF k \in met.fails
       THEN [st EXCEPT !.writes = k, !.raised = k, !.steps = Append(@, "add_texts")]
       ELSE [st EXCEPT !.writes = k, !.raised = 0, !.steps = Append(@, "add_texts"),
                       !.stored = @ + 1,
                       !.index = IF @.exists THEN [@ EXCEPT !.num_docs = @ + 1] ELSE @]

\* vectorstore.add_texts under depth wrappers: protected_add_texts around
\* the method it captured.  raised is the attempt whose exception leaves
\* the call, 0 when it returns.
RECURSIVE add_texts(_, _, _)
add_texts(depth, st, met) ==
    IF depth = 0 THEN original_add_texts(st, met)
    ELSE LET checked == IF st.enabled THEN EnsureInCall(st, met) ELSE st
             first == add_texts(depth - 1, checked, met)
         IN IF first.raised = 0 THEN first
            ELSE LET e == first.raised
                     ensured == EnsureInCall(first, met)
                 IN IF ensured.ok
                    THEN LET retry == add_texts(depth - 1, ensured, met)
                         IN IF retry.raised = 0 THEN retry
                            ELSE [retry EXCEPT !.raised = e]
                    ELSE [ensured EXCEPT !.raised = e]

\* apply_protection: add_texts is wrapped around whatever the attribute
\* holds and that method is kept under 'add_texts'; the retriever wrapped
\* is the one get_retriever made for this call.
apply_protection(p) ==
    [add_texts |-> p.add_texts + 1, original_methods |-> <<p.add_texts>>,
     retrievers |-> p.retrievers + 1]

\* remove_protection: the kept method is put back and the dictionary is
\* cleared.
remove_protection(p) ==
    [add_texts |-> IF p.original_methods = <<>> THEN p.add_texts
                   ELSE p.original_methods[1],
     original_methods |-> <<>>, retrievers |-> p.retrievers]

(***************************************************************************)
(* Protection specification: protection is applied to and removed from one *)
(* index service and texts are added through it, while the manager probes  *)
(* the index, the index is lost and time passes.                           *)
(***************************************************************************)
protFrame ==
    <<auto_recovery_enabled, recovery_lock, threads, rebuilds, now, otherVars0, lastHealth,
      bootVars>>

ApplyProtection ==
    /\ protection.retrievers < MaxApplications
    /\ protection' = apply_protection(protection)
    /\ UNCHANGED <<index, stored, health_cache, lastWrite, protFrame>>

RemoveProtection ==
    /\ protection' = remove_protection(protection)
    /\ UNCHANGED <<index, stored, health_cache, lastWrite, protFrame>>

WriteMets ==
    [fails : SUBSET WriteAttempts, fault : RecoveryFaults, probe_fault : BOOLEAN]

AddTexts(met) ==
    /\ stored <= MaxChunks
    /\ LET st == [at |-> now, index |-> index, stored |-> stored, cache |-> health_cache,
                  enabled |-> auto_recovery_enabled, ok |-> FALSE, writes |-> 0,
                  raised |-> 0, steps |-> <<>>]
           r == add_texts(protection.add_texts, st, met)
       IN /\ index' = r.index
          /\ stored' = r.stored
          /\ health_cache' = r.cache
          /\ lastWrite' = [op |-> "add_texts", wrappers |-> protection.add_texts,
                           at |-> now, enabled |-> auto_recovery_enabled,
                           fails |-> met.fails, index_before |-> index,
                           cache_before |-> health_cache, writes |-> r.writes,
                           raised |-> r.raised, steps |-> r.steps]
    /\ UNCHANGED <<protection, protFrame>>

\* One add_texts call is observed, in any state the applications and
\* removals of the protection, the losses of the index and the clock lead
\* to.
NextProtection ==
    \/ lastWrite = NoCall /\ ApplyProtection
    \/ lastWrite = NoCall /\ RemoveProtection
    \/ lastWrite = NoCall /\ \E met \in WriteMets : AddTexts(met)
    \/ lastWrite = NoCall /\ \E exists \in BOOLEAN : LoseIndex(exists)
    \/ lastWrite = NoCall /\ Elapse

\* The state in which the service is observed: as the recovery
\* specification starts, the manager having probed the index at second 0
\* or not at all.
InitProtection ==
    /\ InitConv /\ InitClock /\ InitDedup /\ InitBot /\ InitOrch /\ InitHook
    /\ InitDocStore /\ InitLater
    /\ stored \in {0, MaxChunks}
    /\ index \in {[exists |-> TRUE, num_docs |-> stored],
                  [exists |-> TRUE, num_docs |-> 0],
                  [exists |-> FALSE, num_docs |-> 0]}
    /\ auto_recovery_enabled \in BOOLEAN
    /\ health_cache \in {EmptyCache,
                         verify_index_health(EmptyCache, 0, index, stored, FALSE).cache}
    /\ recovery_lock = "free"
    /\ threads = [t \in Threads |-> Idle]
    /\ rebuilds = [drops |-> 0, creates |-> 0]

SpecProtection == InitProtection /\ [][NextProtection]_vars

(***************************************************************************)
(* Start-up specification (app/__init__.py): the background thread of      *)
(* delayed_initialization polls for the recovery manager, which            *)
(* initialize_auto_recovery_system has created or creates meanwhile.  A    *)
(* step of the thread is one pass through the loop body.                   *)
(***************************************************************************)
max_attempts == 10

MutKeepsPolling(auto_recovery) == FALSE

\* if auto_recovery: ... break
breaks(auto_recovery) == auto_recovery

\* The state in which the process starts the thread: the index as the
\* recovery specification finds it, the manager created by create_app or
\* not.
InitStartup ==
    /\ InitConv /\ InitClock /\ InitDedup /\ InitBot /\ InitOrch /\ InitHook
    /\ InitDocStore
    /\ lastSchedule = NoCall /\ lastRequest = NoCall
    /\ deliveries = [r \in Requests |-> IdleDelivery]
    /\ writers = [r \in Requests |-> IdleWriter]
    /\ lastHealth = NoCall /\ lastWrite = NoCall
    /\ protection = [add_texts |-> 0, original_methods |-> <<>>, retrievers |-> 0]
    /\ stored \in {0, MaxChunks}
    /\ index \in {[exists |-> TRUE, num_docs |-> stored],
                  [exists |-> TRUE, num_docs |-> 0],
                  [exists |-> FALSE, num_docs |-> 0]}
    /\ auto_recovery_enabled \in BOOLEAN
    /\ health_cache = EmptyCache
    /\ recovery_lock = "free"
    /\ threads = [t \in Threads |-> Idle]
    /\ rebuilds = [drops |-> 0, creates |-> 0]
    /\ \E instance \in BOOLEAN :
          startup = [pc |-> "not_started", instance |-> instance, attempt |-> 0,
                     sleeps |-> 0, found_at |-> 0, passes |-> 0, pass_at |-> 0,
                     caught |-> 0, raised |-> FALSE, reported |-> FALSE]

bootFrame ==
    <<auto_recovery_enabled, recovery_lock, threads, rebuilds, otherVars0, lastHealth,
      protVars>>

\* start_background_initialization: the daemon thread is started.
StartBackgroundInitialization ==
    /\ startup.pc = "not_started"
    /\ startup' = [startup EXCEPT !.pc = "loop"]
    /\ UNCHANGED <<index, stored, health_cache, now, bootFrame>>

\* initialize_auto_recovery_system creates the manager; when the
\* constructor raises the instance stays None.
InitializeAutoRecoverySystem(ok) ==
    /\ ~startup.instance
    /\ startup.pc # "done"
    /\ startup' = [startup EXCEPT !.instance = ok]
    /\ UNCHANGED <<index, stored, health_cache, now, bootFrame>>

\* One pass through the body of the while loop.  fault: the import or the
\* look-up of the manager raises and the handler of the loop catches it.
Attempt(fault, probe_fault, recovery_fault) ==
    /\ startup.pc = "loop"
    /\ startup.attempt < max_attempts
    /\ LET attempt == startup.attempt + 1
           auto_recovery == startup.instance /\ ~fault
           v == verify_index_health(health_cache, now, index, stored, probe_fault)
           r == ensure_index_healthy(v.cache, now, index, stored, auto_recovery_enabled,
                                     probe_fault, recovery_fault)
       IN IF fault
          THEN /\ startup' = [startup EXCEPT !.attempt = attempt, !.caught = @ + 1,
                                             !.sleeps = @ + 1]
               /\ now' = now + 2
               /\ UNCHANGED <<index, stored, health_cache>>
          ELSE IF auto_recovery
          THEN /\ IF v.status.needs_recovery
                  THEN /\ index' = r.index
                       /\ stored' = r.stored
                       /\ health_cache' = r.cache
                  ELSE /\ health_cache' = v.cache
                       /\ UNCHANGED <<index, stored>>
               /\ IF breaks(auto_recovery)
                  THEN /\ startup' =
                             [startup EXCEPT
                                 !.attempt = attempt, !.pc = "left_loop",
                                 !.found_at = IF @ = 0 THEN attempt ELSE @,
                                 !.passes = IF v.status.needs_recovery THEN @ + 1 ELSE @,
                                 !.pass_at = IF v.status.needs_recovery THEN attempt ELSE @]
                       /\ UNCHANGED now
                  ELSE /\ startup' =
                             [startup EXCEPT
                                 !.attempt = attempt, !.sleeps = @ + 1,
                                 !.found_at = IF @ = 0 THEN attempt ELSE @,
                                 !.passes = IF v.status.needs_recovery THEN @ + 1 ELSE @,
                                 !.pass_at = IF v.status.needs_recovery THEN attempt ELSE @]
                       /\ now' = now + 2
          ELSE /\ startup' = [startup EXCEPT !.attempt = attempt, !.sleeps = @ + 1]
               /\ now' = now + 2
               /\ UNCHANGED <<index, stored, health_cache>>
    /\ UNCHANGED bootFrame

\* The loop is left, by the break or by its condition: the final test and
\* the end of the thread.
LeaveLoop ==
    /\ \/ startup.pc = "left_loop"
       \/ startup.pc = "loop" /\ ~(startup.attempt < max_attempts)
    /\ startup' = [startup EXCEPT !.pc = "done",
                                  !.reported = startup.attempt >= max_attempts]
    /\ UNCHANGED <<index, stored, health_cache, now, bootFrame>>

ThreadStep ==
    \/ \E fault \in BOOLEAN, probe_fault \in BOOLEAN, recovery_fault \in RecoveryFaults :
          Attempt(fault, probe_fault, recovery_fault)
    \/ LeaveLoop

NextStartup ==
    \/ StartBackgroundInitialization
    \/ \E ok \in BOOLEAN : InitializeAutoRecoverySystem(ok)
    \/ ThreadStep

\* The started thread is scheduled and time.sleep returns.
SpecStartup ==
    InitStartup /\ [][NextStartup]_vars /\ WF_vars(ThreadStep)

(***************************************************************************)
(* Listing specification (app/models/conversation.py): messages are added  *)
(* and conversations cleared, and the conversations are listed and         *)
(* counted.  The messages of a user are the Redis list                      *)
(* chat_history:<user id>, which exists while it holds a message.           *)
(***************************************************************************)
MaxListed == 3

\* self.redis_prefix
redis_prefix == "conversation:"

\* key_prefix of RedisChatMessageHistory in _get_or_create_redis_history
key_prefix == "chat_history:"

\* redis_client.keys(prefix + "*"), as the user ids after the prefix: the
\* program writes the lists under key_prefix and no key under another
\* prefix of the conversation store.
redis_keys(hist, prefix) ==
    IF prefix = key_prefix THEN {u \in Users : hist[u] # <<>>} ELSE {}

\* The orders in which KEYS can return the keys.
KeyOrders == {<<"u1", "u2">>, <<"u2", "u1">>}

\* seq[start_idx:end_idx] of Python for 0 <= start_idx <= end_idx
Slice(seq, start_idx, end_idx) ==
    SubSeq(seq, start_idx + 1, IF end_idx < Len(seq) THEN end_idx ELSE Len(seq))

\* get_conversation_details: None (<<>>) without messages.
get_conversation_details(hist, user_id) ==
    IF user_id = "" \/ get_chat_history(hist, user_id) = <<>> THEN <<>>
    ELSE <<[user_id |-> user_id, message_count |-> Len(hist[user_id])]>>

RECURSIVE details_of(_, _)
details_of(hist, user_ids) ==
    IF user_ids = <<>> THEN <<>>
    ELSE get_conversation_details(hist, Head(user_ids)) \o details_of(hist, Tail(user_ids))

list_conversations(hist, order, page, page_size) ==
    LET all_keys == redis_keys(hist, redis_prefix)
        user_ids == SelectSeq(order, LAMBDA u : u \in all_keys)
        start_idx == (page - 1) * page_size
        end_idx == start_idx + page_size
        paginated_user_ids == Slice(user_ids, start_idx, end_idx)
    IN [total_conversations |-> Len(user_ids), page |-> page, page_size |-> page_size,
        conversations |-> details_of(hist, paginated_user_ids)]

RECURSIVE count_messages(_, _)
count_messages(hist, user_ids) ==
    IF user_ids = <<>> THEN 0
    ELSE Len(get_chat_history(hist, Head(user_ids))) + count_messages(hist, Tail(user_ids))

get_conversation_stats(hist, order) ==
    LET all_keys == redis_keys(hist, redis_prefix)
        first == Slice(SelectSeq(order, LAMBDA u : u \in all_keys), 0, 100)
        active == SelectSeq(first, LAMBDA u : get_chat_history(hist, u) # <<>>)
    IN [total_conversations |-> Cardinality(all_keys),
        active_conversations |-> Len(active),
        total_messages |-> count_messages(hist, active)]

Pages == {1, 2}
PageSizes == {1, 2}

listFrame ==
    <<convVars, now, dedupVars, botVars, orchVars, hookVars, recVars, docVars, startVars,
      lastSchedule, deliveries, writers>>

\* GET /conversations
ListConversations(order, page, page_size) ==
    /\ lastRequest' = [op |-> "list_conversations", order |-> order,
                       response |-> list_conversations(chat_history, order, page,
                                                       page_size)]
    /\ UNCHANGED listFrame

\* get_conversation_stats
GetConversationStats(order) ==
    /\ lastRequest' = [op |-> "get_conversation_stats", order |-> order,
                       response |-> get_conversation_stats(chat_history, order)]
    /\ UNCHANGED listFrame

NextListing ==
    \/ /\ TotalAdded < MaxListed
       /\ \E u \in Users, role \in {"user", "assistant"} : AddMessage(u, role, FALSE, "none")
    \/ \E u \in Users : ClearConversation(u)
    \/ \E order \in KeyOrders, page \in Pages, page_size \in PageSizes :
          ListConversations(order, page, page_size)
    \/ \E order \in KeyOrders : GetConversationStats(order)

SpecListing == InitAll /\ [][NextListing]_vars

(***************************************************************************)
(* Redelivery specification: the message events of the inbound pipeline,   *)
(* with the clock passing between them.                                    *)
(***************************************************************************)
\* Message 42 or 43 of conversation 7, or a message without id: answered
\* and delivered, without resolvable contact id, with a failing delivery,
\* or with the store failing when the marker is set.
RedeliveryCases ==
    {[data |-> [DefaultData EXCEPT !.message_id = m], met |-> DefaultMet] :
        m \in {0, 42, 43}}
    \cup {[data |-> [DefaultData EXCEPT !.message_id = 42,
                                        !.contact.contact_inbox = Absent],
           met |-> DefaultMet],
          [data |-> [DefaultData EXCEPT !.message_id = 42],
           met |-> [DefaultMet EXCEPT !.send = "500"]],
          [data |-> [DefaultData EXCEPT !.message_id = 42],
           met |-> [DefaultMet EXCEPT !.dedup_fault = "set"]]}

NextRedelivery ==
    \/ \E case \in RedeliveryCases : ProcessIncomingMessage(case.data, case.met)
    \/ Tick

SpecRedelivery == InitAll /\ [][NextRedelivery]_vars

(***************************************************************************)
(* Claims.                                                                 *)
(***************************************************************************)
Min(a, b) == IF a < b THEN a ELSE b

\* C1: after N accepted add_message calls for one user id (non-blank content,
\* role user or assistant, no store failure), the stored history has exactly
\* min(N, 10) entries, and they are the last min(N, 10) added turns in the
\* order in which they were added.
C1_SlidingWindow ==
    \A u \in Users :
        u \notin faulted =>
            LET N == Len(added[u])
                h == get_chat_history(chat_history, u)
            IN /\ Len(h) = Min(N, 10)
               /\ \A i \in 1..Len(h) : h[i] = added[u][N - Len(h) + i]

\* C1 witness: a twelfth turn has just been accepted for a user whose record
\* no store failure has touched, so the window has dropped two turns.
C1_Witness ==
    \E u \in Users :
        /\ u \notin faulted
        /\ Len(added[u]) = 12
        /\ Len(chat_history[u]) = 10
        /\ lastAdd.op = "add_message" /\ lastAdd.user_id = u /\ lastAdd.ok

\* C2: for a present message id m and a conversation c, a call of
\* is_message_already_processed(m, c) that no store failure disturbs returns
\* true iff an earlier call for the same pair returned false less than 3600
\* seconds before; a call that returns false leaves the marker of the pair
\* with a lifetime of exactly 3600 seconds; and no call changes the marker of
\* another pair.
C2_DedupMarker ==
    /\ [](lastDedup.op = "is_message_already_processed"
            /\ lastDedup.message_id # 0 /\ lastDedup.fault = "none"
          => /\ lastDedup.result <=>
                  (lastDedup.seen # -1 /\ lastDedup.at < lastDedup.seen + 3600)
             /\ ~lastDedup.result =>
                  processed_message[<<lastDedup.conversation_id, lastDedup.message_id>>]
                     = lastDedup.at + 3600)
    /\ [][\A p \in Pairs :
             processed_message'[p] # processed_message[p]
                => /\ lastDedup'.op = "is_message_already_processed"
                   /\ p = <<lastDedup'.conversation_id, lastDedup'.message_id>>]_vars

\* C2 witness: a pair was marked, reported processed just before the expiry
\* of its marker, and is reported not-processed again at the expiry, while
\* another pair still carries its own marker.
C2_Witness ==
    /\ lastDedup.op = "is_message_already_processed"
    /\ lastDedup.fault = "none" /\ lastDedup.message_id = 42
    /\ lastDedup.seen # -1
    /\ lastDedup.at = lastDedup.seen + 3600
    /\ ~lastDedup.result
    /\ \E p \in Pairs :
          /\ p # <<lastDedup.conversation_id, lastDedup.message_id>>
          /\ processed_message[p] > now

\* C3: should_bot_respond(c, s) returns true iff s = "open", and every
\* bot-status record in the store has active = "True" iff its status is
\* "open".
C3_BotActiveIffOpen ==
    /\ lastBot.op = "should_bot_respond" => (lastBot.result <=> lastBot.status = "open")
    /\ \A c \in Conversations :
          bot_status[c] # NoRecord =>
              /\ bot_status[c].active \in {"True", "False"}
              /\ bot_status[c].active = "True" <=> bot_status[c].status = "open"

\* C3 witness: an unknown status has just been refused and recorded as
\* inactive, while another conversation is recorded as active.
C3_Witness ==
    /\ lastBot.op = "should_bot_respond" /\ lastBot.status = "archived"
    /\ ~lastBot.result
    /\ bot_status[lastBot.conversation_id].status = "archived"
    /\ \E c \in Conversations : bot_status[c].active = "True"

\* C4: a process_incoming_message call invokes the orchestrator and
\* send_message only if the event's message_type is "incoming" and the
\* conversation status is "open"; for any other event it generates no
\* reply, delivers nothing, sets no processed-message marker and changes no
\* conversation history; a non-incoming event returns "non_incoming_message"
\* and an event of an inactive conversation with valid conversation data
\* returns "bot_inactive".
C4_ReplyOnlyIncomingAndOpen ==
    [][events' = events + 1 =>
          LET h == lastHook'
              incoming == h.data.message_type = "incoming"
              open == h.data.status = "open"
          IN /\ (h.orchestrator \/ h.router_invoked \/ h.send_called) => incoming /\ open
             /\ ~(incoming /\ open) =>
                   /\ IsBlank(h.reply)
                   /\ outbox' = outbox
                   /\ processed_message' = processed_message
                   /\ chat_history' = chat_history
                   /\ ~incoming => h.outcome = "non_incoming_message" /\ ~h.raised
                   /\ incoming /\ h.data.conversation.kind = "ok" =>
                         h.outcome = "bot_inactive" /\ ~h.raised
    ]_vars

\* C4 witness: after an answered message, an event of a pending
\* conversation returned "bot_inactive"; the history and the outbox are as
\* the first event left them and the message has no marker.
C4_Witness ==
    /\ events = 2
    /\ lastHook.outcome = "bot_inactive"
    /\ lastHook.data.status = "pending"
    /\ lastHook.data.message_id = 42
    /\ processed_message[<<7, 42>>] = 0
    /\ Len(chat_history["u1"]) = 2
    /\ Len(outbox) = 1

\* C5: for every router output, the agent that _orchestrate invokes first is
\* the Emergency agent iff the intent is EMERGENCY, the Sales (Schedule)
\* agent iff the intent is SALES (SCHEDULE) and the confidence is a number
\* strictly greater than 0.8, and the Support agent in every other case
\* (confidence exactly 0.8, output that is no JSON, no object, or carries a
\* confidence that is no number); and the agent invoked first is the one
\* that answers whenever no agent call fails.
C5_DispatchRule ==
    LET r == lastResponse
    IN r.op = "get_response" /\ r.router_invoked /\ r.env.router.kind # "raise" =>
          LET router == r.env.router
              object == router.kind = "object"
              high == /\ object
                      /\ router.confidence.kind = "number"
                      /\ router.confidence.value > 80
              first == r.orch.invoked[2]
          IN /\ first = "emergency" <=> (object /\ router.intent = "EMERGENCY")
             /\ first = "sales" <=> (high /\ router.intent = "SALES")
             /\ first = "schedule" <=> (high /\ router.intent = "SCHEDULE")
             /\ first \in {"emergency", "sales", "schedule", "support"}
             /\ ~r.env.agent_fails /\ ~r.env.fallback_fails => r.orch.answered_by = first

\* C5 witness: the router returned SALES with confidence exactly 0.8, no
\* agent failed, and the Support agent answered.
C5_Witness ==
    /\ lastResponse.op = "get_response" /\ lastResponse.router_invoked
    /\ lastResponse.env.router.kind = "object"
    /\ lastResponse.env.router.intent = "SALES"
    /\ lastResponse.env.router.confidence = [kind |-> "number", value |-> 80]
    /\ ~lastResponse.env.agent_fails
    /\ lastResponse.orch.answered_by = "support"
    /\ lastResponse.outcome = "answered"

\* Something failed during the call: the history read, the router, an agent
\* or one of the two stores.
SomethingFailed(r) ==
    \/ r.env.load # "none"
    \/ r.env.router.kind = "raise"
    \/ r.env.agent_fails
    \/ r.env.fallback_fails
    \/ r.env.f1 # "none"
    \/ r.env.f2 # "none"

Apology(r) == r.reply = Canned("apology") /\ r.label = "error"

Tail10(list) ==
    IF Len(list) <= 10 THEN list ELSE [i \in 1..10 |-> list[Len(list) - 10 + i]]

Human(content) == [type |-> "human", content |-> content]
Ai(content) == [type |-> "ai", content |-> content]

\* The history of the caller after the last get_response call.
After(r) == IF r.user_id \in Users THEN chat_history[r.user_id] ELSE <<>>

C8_ProtectedRetrievalNeverRaises ==
    \A t \in Threads :
        LET th == threads[t]
        IN th.op = "protected_retriever_invoke" =>
              /\ ~th.raised
              /\ th.invokes <= 1 /\ th.reconstructions <= 1 /\ th.retries <= 1
              /\ th.reconstructions = 1 <=> th.failed
              /\ th.retries = 1 => th.recovered = "true"
              /\ th.pc = "done" =>
                    /\ th.rv \in {"docs", "empty"}
                    /\ th.invokes = 1
                    /\ ~th.failed => th.rv = "docs" /\ th.retries = 0
                    /\ th.failed /\ th.recovered = "false" =>
                          th.rv = "empty" /\ th.retries = 0
                    /\ th.retried = "failed" => th.rv = "empty"
                    /\ th.retried = "ok" => th.rv = "docs"

\* C8 witness: a protected call whose retrieval failed, whose
\* reconstruction succeeded and whose retry failed has returned the empty
\* list.
C8_Witness ==
    \E t \in Threads :
        /\ threads[t].op = "protected_retriever_invoke"
        /\ threads[t].pc = "done"
        /\ threads[t].failed
        /\ threads[t].reconstructions = 1
        /\ threads[t].recovered = "true"
        /\ threads[t].retried = "failed"
        /\ threads[t].rv = "empty"

\* C9 as stated: a search (VectorstoreService.search, or invoke of the
\* retriever of get_retriever) that runs while a reconstruction has dropped
\* and not yet recreated the index does not raise to its caller and returns
\* the empty list.
C9_SearchDuringRebuildDegrades ==
    \A t \in Threads :
        threads[t].in_window => ~threads[t].raised /\ threads[t].rv = "empty"

\* C10 as stated: when more than one thread calls the reconstruction while
\* the rebuild of another thread is in progress, the index definition is
\* dropped and recreated no more than once for the whole group.
C10_TriggersCollapse ==
    \A t \in Threads :
        LET group == {u \in Threads : threads[u].behind = t}
        IN Cardinality(group) > 1 /\ (\A u \in Threads : threads[u].pc = "done") =>
              rebuilds.drops <= 1 /\ rebuilds.creates <= 1

\* The threads inside the drop-and-recreate section of
\* reconstruct_index_from_stored_data (the body of the with statement).
InSection == {t \in Threads : threads[t].pc \in {"stored_docs", "drop", "recreate"}}

\* C11: at most one thread at a time is inside the drop-and-recreate
\* section, whichever operation called the reconstruction; the thread
\* inside is the holder of the lock, and the lock is released whenever no
\* thread is inside, so every exit of the section, failures included, has
\* released it.
C11_RebuildMutualExclusion ==
    /\ Cardinality(InSection) <= 1
    /\ \A t \in Threads : t \in InSection <=> recovery_lock = t
    /\ InSection = {} <=> recovery_lock = "free"

\* C11 witness: a thread has failed inside the section and left it, a
\* second thread is now inside and has dropped the index, and a third
\* waits for the lock.
C11_Witness ==
    \E t, u, v \in Threads :
        /\ threads[t].pc = "recreate" /\ recovery_lock = t
        /\ threads[u].pc = "lock"
        /\ threads[v].pc = "done" /\ threads[v].rv = "false" /\ threads[v].dropped = 1

(***************************************************************************)
(* C12 (as stated): every health snapshot, the one of a failed probe       *)
(* included, has healthy iff index count > 0 and stored count > 0, and     *)
(* needs_recovery iff index count = 0 and stored count > 0.                *)
(***************************************************************************)
Snapshots == {threads[t].health : t \in Threads} \cup {health_cache.status}

C12_EverySnapshotConsistent ==
    \A h \in Snapshots :
        h.known =>
            /\ h.healthy <=> (h.index_doc_count > 0 /\ h.stored_documents > 0)
            /\ h.needs_recovery <=> (h.index_doc_count = 0 /\ h.stored_documents > 0)

\* C12 (amended): a snapshot of a probe that reached the index satisfies both
\* equivalences; the snapshot of a failed probe reports index_exists false,
\* healthy false, needs_recovery true and stored_documents 0; in every
\* snapshot healthy and needs_recovery are never both true.
C12_HealthSnapshot ==
    \A h \in Snapshots :
        h.known =>
            /\ h.index_exists =>
                  /\ h.healthy <=> (h.index_doc_count > 0 /\ h.stored_documents > 0)
                  /\ h.needs_recovery <=> (h.index_doc_count = 0 /\ h.stored_documents > 0)
            /\ ~h.index_exists =>
                  ~h.healthy /\ h.needs_recovery /\ h.stored_documents = 0
            /\ ~(h.healthy /\ h.needs_recovery)

\* A check_health call and an ensure_index_healthy call have returned, one
\* with the snapshot of a failed probe and one with the snapshot of an empty
\* index over an empty store (neither healthy nor in need of recovery).
C12_Witness ==
    \E t, u \in Threads :
        /\ threads[t].op = "check_health" /\ threads[t].pc = "done"
        /\ threads[t].health.known /\ ~threads[t].health.index_exists
        /\ threads[u].op = "ensure_index_healthy" /\ threads[u].pc = "done"
        /\ threads[u].health.index_exists
        /\ threads[u].health.index_doc_count = 0 /\ threads[u].health.stored_documents = 0

(***************************************************************************)
(* C13 (as stated): ensure_index_healthy invokes the reconstruction iff    *)
(* the verdict needs recovery and auto-recovery is enabled, never raises,  *)
(* and returns true only if the index is healthy when it returns.          *)
(***************************************************************************)
Returns(t) ==
    /\ threads[t].op = "ensure_index_healthy"
    /\ threads[t].pc # "done" /\ threads'[t].pc = "done"

IndexHealthy(idx, stored_count) ==
    idx.exists /\ idx.num_docs > 0 /\ stored_count > 0

C13_TrueOnlyIfHealthyAtReturn ==
    [][\A t \in Threads :
          Returns(t) =>
              /\ ~threads'[t].raised
              /\ threads'[t].ensured = "reconstruct"
                    <=> (threads'[t].health.needs_recovery /\ auto_recovery_enabled)
              /\ threads'[t].rv = "true" => IndexHealthy(index', stored')]_vars

\* C13 (amended): ensure_index_healthy never raises; it invokes the
\* reconstruction iff the verdict it obtained (cached or fresh) needs recovery
\* and auto-recovery is enabled; without a reconstruction it returns the
\* healthy flag of that verdict, and with one it returns the reconstruction's
\* result, true only when the reconstruction has just recreated the index
\* definition and cleared the health cache.
C13_EnsureIndexHealthy ==
    [][\A t \in Threads :
          Returns(t) =>
              /\ ~threads'[t].raised
              /\ threads'[t].rv \in {"true", "false"}
              /\ threads'[t].ensured = "reconstruct"
                    <=> (threads'[t].health.needs_recovery /\ auto_recovery_enabled)
              /\ threads'[t].ensured = "verdict" =>
                    /\ threads[t].pc = "ensure"
                    /\ threads'[t].rv = "true" <=> threads'[t].health.healthy
              /\ threads'[t].ensured = "reconstruct" =>
                    /\ threads[t].pc \in {"reconstruct", "stored_docs", "recreate"}
                    /\ threads'[t].rv = "true" =>
                          /\ threads[t].pc = "recreate"
                          /\ index'.exists
                          /\ health_cache' = EmptyCache]_vars

\* Two calls have returned: one rebuilt the index after a verdict that needed
\* recovery and returned true, the other returned the healthy flag of its
\* verdict without a reconstruction.
C13_Witness ==
    \E t, u \in Threads :
        /\ threads[t].op = "ensure_index_healthy" /\ threads[t].pc = "done"
        /\ threads[t].ensured = "reconstruct" /\ threads[t].rv = "true"
        /\ threads[u].op = "ensure_index_healthy" /\ threads[u].pc = "done"
        /\ threads[u].ensured = "verdict" /\ threads[u].rv = "true"

\* C14: delete_document(id) on an id without a document record reports
\* not-found and changes nothing (no record, chunk, version or change record
\* touched; no change registration attempted); otherwise, when it returns, the
\* document record is absent, no chunk whose direct doc_id field or metadata
\* doc_id equals id remains, only such chunks were removed, and
\* vectors_deleted is the number of chunk records removed.
C14_DeleteDocument ==
    [][lastDoc'.op = "delete_document" =>
          LET id == lastDoc'.doc_id
          IN IF \A d \in documents : d.doc_id # id
             THEN /\ ~lastDoc'.found
                  /\ ~lastDoc'.registered
                  /\ UNCHANGED <<documents, vectors, vectorstore_version, doc_changes>>
             ELSE /\ lastDoc'.found
                  /\ \A d \in documents' : d.doc_id # id
                  /\ \A d \in documents : d.doc_id # id => d \in documents'
                  /\ \A v \in vectors' : v.doc_id # id /\ v.metadata # id
                  /\ vectors' \subseteq vectors
                  /\ \A v \in vectors \ vectors' : v.doc_id = id \/ v.metadata = id
                  /\ lastDoc'.vectors_deleted = Cardinality(vectors \ vectors')]_vars

\* A delete has removed a document together with one chunk owned through the
\* direct field and one owned through the metadata.
C14_Witness ==
    /\ lastDoc.op = "delete_document" /\ lastDoc.found
    /\ lastDoc.vectors_deleted = 2
    /\ \E v, w \in lastDoc.removed :
          /\ v.doc_id = lastDoc.doc_id /\ v.metadata = ""
          /\ w.doc_id = "" /\ w.metadata = lastDoc.doc_id

\* C15: the id add_document returns depends on the content only: an ingestion
\* of a content whose document record is already stored returns the id of that
\* record, whatever the metadata of the two calls, and leaves exactly one
\* document record for the content.
C15_ContentAddressedId ==
    [][(lastDoc'.op = "add_document" /\ ~lastDoc'.raised) =>
          /\ \A d \in documents :
                d.content = lastDoc'.content => d.doc_id = lastDoc'.doc_id
          /\ Cardinality({d \in documents' : d.content = lastDoc'.content}) = 1
          /\ \A d \in documents' :
                d.content = lastDoc'.content => d.doc_id = lastDoc'.doc_id
          /\ \A d \in documents :
                d.content # lastDoc'.content => d \in documents']_vars

\* The same content has been ingested a second time with other metadata and
\* replaced the record of the first ingestion under the same id.
C15_Witness ==
    /\ lastDoc.op = "add_document" /\ ~lastDoc.raised
    /\ \E d \in lastDoc.replaced :
          /\ d.content = lastDoc.content
          /\ d.doc_id = lastDoc.doc_id
          /\ d.metadata # lastDoc.metadata
    /\ Cardinality({d \in documents : d.content = lastDoc.content}) = 1

\* C16 (as stated): the vectorstore version never decreases, is incremented by
\* exactly one by every successful add_document and every successful
\* delete_document, and is changed by nothing else.
C16_VersionCountsChanges ==
    [][/\ vectorstore_version' >= vectorstore_version
       /\ IF \/ lastDoc'.op = "add_document" /\ ~lastDoc'.raised
             \/ lastDoc'.op = "delete_document" /\ lastDoc'.found
          THEN vectorstore_version' = vectorstore_version + 1
          ELSE vectorstore_version' = vectorstore_version]_vars

\* The owner id cleanup and diagnostics resolve for a chunk: the direct doc_id
\* field when set, else the doc_id of a decodable metadata field, else none.
Owner(v) ==
    IF v.doc_id # "" THEN v.doc_id
    ELSE IF v.metadata \in {"", "{}", "invalid"} THEN "" ELSE v.metadata

Orphans(docs, vs) ==
    {v \in vs : Owner(v) # "" /\ \A d \in docs : d.doc_id # Owner(v)}

\* C17: cleanup_orphaned_vectors never touches a document record; with
\* dry_run true it leaves every chunk record in place; with dry_run false it
\* removes exactly the chunks whose resolved owner id is not an existing
\* document (no chunk whose owner exists, none without an owner id); in both
\* modes the reported orphan count is the number of such chunks.
C17_CleanupFrame ==
    [][lastDoc'.op = "cleanup_orphaned_vectors" =>
          /\ UNCHANGED <<documents, vectorstore_version, doc_changes>>
          /\ lastDoc'.dry_run => vectors' = vectors
          /\ ~lastDoc'.dry_run =>
                /\ vectors' \subseteq vectors
                /\ vectors \ vectors' = Orphans(documents, vectors)
                /\ lastDoc'.orphaned_vectors_deleted = Cardinality(vectors \ vectors')
          /\ lastDoc'.orphaned_vectors_found = Cardinality(Orphans(documents, vectors))
          /\ lastDoc'.orphaned_vectors_found =
                cleanup_orphaned_vectors(documents, vectors, ~lastDoc'.dry_run)
                    .orphaned_vectors_found]_vars

\* A cleanup with dry_run false has deleted the one orphaned chunk of a store
\* of two chunks and kept the other, which carries no owner id.
C17_Witness ==
    /\ lastDoc.op = "cleanup_orphaned_vectors" /\ ~lastDoc.dry_run
    /\ lastDoc.orphaned_vectors_found = 1
    /\ lastDoc.orphaned_vectors_deleted = 1
    /\ lastDoc.total_vectors = 2
    /\ \E v \in vectors : Owner(v) = ""

\* C18: cleanup_orphaned_vectors counts as orphaned exactly the chunks whose
\* owning document id has no document record, and get_diagnostics counts as
\* orphaned documents exactly the document records to whose id no chunk
\* resolves; a chunk whose owner exists and a document with an owned chunk
\* are in neither count.
C18_OrphanCounts ==
    [][/\ lastDoc'.op = "cleanup_orphaned_vectors" =>
             /\ lastDoc'.orphaned_samples = Orphans(documents, vectors)
             /\ lastDoc'.orphaned_vectors_found = Cardinality(lastDoc'.orphaned_samples)
             /\ \A v \in vectors :
                   (\E d \in documents : d.doc_id = Owner(v))
                       => v \notin lastDoc'.orphaned_samples
       /\ lastDoc'.op = "get_diagnostics" =>
             /\ lastDoc'.orphaned_doc_samples =
                   {d.doc_id : d \in {e \in documents :
                                         \A v \in vectors : Owner(v) # e.doc_id}}
             /\ lastDoc'.orphaned_documents = Cardinality(lastDoc'.orphaned_doc_samples)
             /\ \A v \in vectors : Owner(v) \notin lastDoc'.orphaned_doc_samples]_vars

\* The diagnostics have reported one orphaned document next to a document
\* that owns a chunk, on a store whose only chunk names another id in its
\* metadata.
C18_Witness ==
    /\ lastDoc.op = "get_diagnostics"
    /\ lastDoc.total_documents = 2
    /\ lastDoc.orphaned_documents = 1
    /\ lastDoc.documents_with_vectors = 1
    /\ \E v \in vectors : v.doc_id # "" /\ v.metadata \in lastDoc.orphaned_doc_samples

\* The candidates of a contact record in the order of the claim: a place
\* whose container is malformed, and the top-level sender of type agent,
\* give none.
Candidates(k) ==
    <<IF k.malformed = "contact_inbox" THEN <<>> ELSE k.contact_inbox,
      IF k.malformed = "meta" THEN <<>> ELSE k.meta_sender,
      IF k.malformed = "sender" \/ k.sender_type = "agent" THEN <<>> ELSE k.sender>>

Qualifies(v) ==
    LET core == strip(v)
    IN \/ core # <<>> /\ \A i \in 1..Len(core) : core[i] \in Digits
       \/ Len(core) >= 8 /\ SubSeq(core, 1, 8) = ContactPrefix

MethodNames ==
    <<"conversation.contact_inbox.contact_id", "conversation.meta.sender.id",
      "root.sender.id">>

\* C19: extract_contact_id returns the first of conversation.contact_inbox
\* .contact_id, conversation.meta.sender.id and the top-level sender.id
\* (skipped for a sender of type agent) that, once trimmed, is entirely numeric
\* or starts with "contact_", trimmed and with the name of its place; the event
\* is then answered under the user id of that contact.  When none qualifies it
\* reports not-valid and process_incoming_message fails with an error, nothing
\* being sent.
C19_ContactExtraction ==
    lastHook.op = "process_incoming_message" =>
        LET k == lastHook.data.contact
            r == extract_contact_id(k)
            firsts == {i \in 1..3 : /\ Qualifies(Candidates(k)[i])
                                    /\ \A j \in 1..(i - 1) : ~Qualifies(Candidates(k)[j])}
        IN IF firsts = {}
           THEN /\ ~r.is_valid /\ r.method = "none"
                /\ lastHook.outcome = "contact_error" /\ lastHook.raised
                /\ outbox = <<>>
                /\ \A u \in Users : chat_history[u] = <<>>
           ELSE \A i \in firsts :
                    /\ r.is_valid
                    /\ r.contact_id = strip(Candidates(k)[i])
                    /\ r.method = MethodNames[i]
                    /\ lastHook.outcome = "success" /\ ~lastHook.raised
                    /\ chat_history[create_user_id(r.contact_id)] # <<>>

\* An event whose first place holds an id of invalid format and whose second
\* place holds a padded numeric id has been answered for the contact of the
\* second place.
C19_Witness ==
    /\ lastHook.op = "process_incoming_message"
    /\ lastHook.data.contact.contact_inbox = IdAbc
    /\ lastHook.data.contact.meta_sender = Padded12
    /\ lastHook.data.contact.malformed = "none"
    /\ lastHook.outcome = "success"
    /\ extract_contact_id(lastHook.data.contact).method = "conversation.meta.sender.id"
    /\ extract_contact_id(lastHook.data.contact).contact_id = Id12
    /\ chat_history["u1"] # <<>>

\* C20: an incoming event on an active conversation that is not a duplicate,
\* names a valid contact, has a content that is empty once trimmed and yields
\* no media context gets the canned please-send-content reply; the
\* orchestrator and its router are not invoked, nothing is sent through
\* send_message, and the conversation histories are left as they were.
C20_EmptyMessage ==
    [][LET call == lastHook'
       IN (/\ call.op = "process_incoming_message"
           /\ call.data.message_type = "incoming"
           /\ call.data.content \in {"empty", "blank"}
           /\ ~has_media_context(process_attachments(call.data.attachments).media_context)
           /\ call.outcome \notin {"missing_conversation_data", "missing_conversation_id",
                                   "invalid_conversation_id", "bot_inactive",
                                   "already_processed", "contact_error"})
          => /\ call.outcome = "empty_message"
             /\ ~call.raised
             /\ call.reply = Canned("send_content")
             /\ ~call.orchestrator /\ ~call.router_invoked
             /\ \A i \in 1..Len(call.steps) : call.steps[i] # "get_response"
             /\ ~call.send_called
             /\ chat_history' = chat_history
             /\ outbox' = outbox]_vars

\* After an answered event, a second event of the same contact with a content
\* of whitespace only and an image whose analysis gave nothing got the canned
\* reply; the history of the contact is the one the first event left.
C20_Witness ==
    /\ events = 2
    /\ lastHook.outcome = "empty_message"
    /\ lastHook.data.content = "blank"
    /\ lastHook.data.attachments # <<>>
    /\ lastHook.reply = Canned("send_content")
    /\ Len(chat_history["u1"]) = 2
    /\ Len(outbox) = 1

\* Number of occurrences of a value in a sequence.
Count(seq, v) == Cardinality({i \in 1..Len(seq) : seq[i] = v})

\* C21: the result of _filter_slots_by_duration(slots, d) lists, in ascending
\* order of the sorted slot times, one entry start - (start + d) for every
\* position i at which the r = max(1, d // 30) slots from i on are each 30
\* minutes after the previous one (every position for r = 1), and nothing
\* else; for 09:00, 09:30, 10:00, 11:00 and d = 60 it is
\* 09:00 - 10:00, 09:30 - 10:30.
C21_FilterSlots ==
    lastSchedule.op = "_filter_slots_by_duration" =>
        LET d == lastSchedule.required_duration
            given == lastSchedule.available_slots
            r == IF d \div 30 >= 1 THEN d \div 30 ELSE 1
            times == sort_times(slot_times(given))
            Minutes(t) == t[1] * 60 + t[2]
            positions == {i \in 1..(Len(times) - r + 1) :
                            \A k \in 1..(r - 1) :
                                Minutes(times[i + k]) = Minutes(times[i + k - 1]) + 30}
            result == lastSchedule.result
            Position(j) == CHOOSE i \in positions :
                               Cardinality({p \in positions : p < i}) = j - 1
        IN /\ \A v \in SlotTimes : Count(times, v) = Count(given, v)
           /\ \A i \in 1..(Len(times) - 1) : Minutes(times[i]) <= Minutes(times[i + 1])
           /\ Len(result) = Cardinality(positions)
           /\ \A j \in 1..Len(result) :
                 /\ result[j].start = times[Position(j)]
                 /\ Minutes(result[j].end) = (Minutes(result[j].start) + d) % 1440
           /\ (given = <<<<9, 0>>, <<9, 30>>, <<10, 0>>, <<11, 0>>>> /\ d = 60)
                 => result = <<[start |-> <<9, 0>>, end |-> <<10, 0>>],
                               [start |-> <<9, 30>>, end |-> <<10, 30>>]>>

\* The call of the example, its slots given out of order.
C21_Witness ==
    /\ lastSchedule.op = "_filter_slots_by_duration"
    /\ lastSchedule.available_slots = <<<<11, 0>>, <<10, 0>>, <<9, 30>>, <<9, 0>>>>
    /\ lastSchedule.required_duration = 60
    /\ lastSchedule.result = <<[start |-> <<9, 0>>, end |-> <<10, 0>>],
                               [start |-> <<9, 30>>, end |-> <<10, 30>>]>>

\* C22: send_message returns true only on an HTTP 200 response and false,
\* without raising, on any other status and on a transport error; when it
\* returns false for the generated reply, process_incoming_message ends the
\* turn with an error and the webhook route answers with the generic
\* internal-error response.
C22_SendMessage ==
    [][(lastRequest'.op = "chatwoot_webhook"
            /\ lastRequest'.event_type = "message_created"
            /\ lastHook'.outcome \in {"success", "send_error"})
        => LET call == lastHook'
               id == call.data.conversation.id
           IN IF call.met.send = "200"
              THEN /\ outbox' = Append(outbox, [conversation_id |-> id,
                                                content |-> call.reply])
                   /\ call.outcome = "success" /\ ~call.raised
                   /\ lastRequest'.response.status = 200
              ELSE /\ outbox' = outbox
                   /\ call.outcome = "send_error" /\ call.raised
                   /\ lastRequest'.response.status = 500
                   /\ lastRequest'.response.message = "Error interno del servidor"]_vars

\* A reply that Chatwoot refused with status 201 or that met a timeout was
\* answered with the generic 500.
C22_Witness ==
    /\ lastRequest.op = "chatwoot_webhook"
    /\ lastHook.op = "process_incoming_message"
    /\ lastHook.send_called
    /\ lastHook.met.send \in {"201", "timeout"}
    /\ lastHook.outcome = "send_error"
    /\ outbox = <<>>
    /\ lastRequest.response = [status |-> 500, message |-> "Error interno del servidor"]

\* C23 (as stated): a request that fails input validation (a webhook event
\* without conversation id or resolvable contact id) is answered with HTTP
\* 400, and any other failure with a 5xx whose body is a generic message
\* without the exception text.
C23_ValidationIs400 ==
    (lastRequest.op = "chatwoot_webhook" /\ lastRequest.event_type = "message_created"
        /\ lastHook.op = "process_incoming_message" /\ lastHook.raised)
    => IF lastHook.outcome \in {"missing_conversation_data", "missing_conversation_id",
                                "invalid_conversation_id", "contact_error"}
       THEN lastRequest.response.status = 400
       ELSE /\ lastRequest.response.status >= 500
            /\ lastRequest.response.message # "exception_text"

\* C24: an API-key gated route runs its handler only if the X-API-Key header
\* is present and equal to the configured admin key; with the header absent
\* or different, or with no admin key configured, the response is 401 and
\* the index, the rebuild counts, the markers, the bot statuses and the
\* health cache are left as they were.
C24_ApiKeyGate ==
    [][lastRequest'.op \in {"force_vectorstore_recovery", "reset_system"}
        => LET req == lastRequest'
               present == req.api_key # "None"
               accepted == present /\ req.api_key # "" /\ req.api_key = req.configured
           IN /\ req.handler_ran <=> accepted
              /\ (~present \/ req.api_key # req.configured \/ req.configured = "None")
                    => ~req.handler_ran
              /\ ~req.handler_ran
                    => /\ req.response.status = 401
                       /\ UNCHANGED <<index, stored, rebuilds, health_cache,
                                      processed_message, bot_status, chat_history,
                                      recovery_lock, auto_recovery_enabled>>]_vars

\* A reset with a wrong key was refused while a marker, a bot status and a
\* cached health verdict were stored, and they are still there.
C24_Witness ==
    /\ lastRequest.op = "reset_system"
    /\ lastRequest.api_key = "k2" /\ lastRequest.configured = "k1"
    /\ lastRequest.response.status = 401
    /\ \E p \in Pairs : processed_message[p] > 0
    /\ bot_status[7].status = "open"

\* C27: for every inbound message event the bot-status record of its
\* conversation is recomputed from the event's status and persisted before
\* the decision whether to generate a reply (it is the first step, whether
\* or not a reply follows); a conversation_updated event performs the same
\* recomputation and neither invokes the orchestrator nor sends a message.
C27_BotStatusFirst ==
    [][lastRequest'.op = "chatwoot_webhook"
        => LET call == lastHook'
               data == call.data
               inbound == /\ data.message_type = "incoming"
                          /\ data.conversation.kind = "ok"
                          /\ data.status # "none"
               Recomputed(id) ==
                   [active |-> IF data.status = "open" THEN "True" ELSE "False",
                    status |-> data.status, updated_at |-> now,
                    expires |-> now + BOT_STATUS_TTL]
           IN /\ (lastRequest'.event_type = "message_created" /\ inbound)
                    => /\ bot_status'[data.conversation.id]
                             = Recomputed(data.conversation.id)
                       /\ Len(call.steps) >= 1 /\ call.steps[1] = "bot_status"
                       /\ \A i \in 2..Len(call.steps) : call.steps[i] # "bot_status"
                       /\ (data.status # "open")
                             => call.steps = <<"bot_status">> /\ outbox' = outbox
              /\ (lastRequest'.event_type = "conversation_updated"
                    /\ data.conversation.kind = "ok" /\ data.status # "none")
                    => /\ bot_status'[data.conversation.id]
                             = Recomputed(data.conversation.id)
                       /\ outbox' = outbox
                       /\ chat_history' = chat_history
                       /\ lastResponse' = lastResponse
                       /\ lastRequest'.response.status = 200]_vars

\* A message was answered and delivered, then a conversation_updated event
\* set the conversation to pending without a second delivery.
C27_Witness ==
    /\ lastRequest.op = "chatwoot_webhook"
    /\ lastRequest.event_type = "conversation_updated"
    /\ lastRequest.response.status = 200
    /\ bot_status[7].status = "pending" /\ bot_status[7].active = "False"
    /\ Len(outbox) = 1

\* The positions of a step in the steps of a call.
StepsAt(call, step) == {i \in 1..Len(call.steps) : call.steps[i] = step}

C25_CheckThenSet ==
    /\ [][\A r \in Requests :
            (deliveries[r].pc = "idle" /\ deliveries'[r].pc # "idle")
            => LET d == deliveries'[r]
               IN (d.result = "processed")
                    <=> processed_message[<<d.conversation_id, d.message_id>>] > now]_vars
    /\ [](\A r, q \in Requests :
            (r # q /\ deliveries[r].result = "not_processed"
                   /\ deliveries[q].result = "not_processed"
                   /\ deliveries[r].conversation_id = deliveries[q].conversation_id
                   /\ deliveries[r].message_id = deliveries[q].message_id)
            => (r \in deliveries[q].pending \/ q \in deliveries[r].pending))

\* Both deliveries of message 42 of conversation 7 returned not-processed and
\* two replies were sent to the conversation.
C25_Witness ==
    /\ \A r \in Requests :
          /\ deliveries[r].pc = "done"
          /\ deliveries[r].result = "not_processed"
          /\ deliveries[r].conversation_id = 7 /\ deliveries[r].message_id = 42
    /\ Len(outbox) = 2
    /\ outbox[1] = outbox[2]

\* The stored form of the last max_messages of the accepted turns.
StoredTail(turns) ==
    LET n == Len(turns)
        first == IF n > max_messages THEN n - max_messages + 1 ELSE 1
    IN [i \in 1..(n - first + 1) |->
           [type |-> IF turns[first + i - 1].role = "user" THEN "human" ELSE "ai",
            content |-> turns[first + i - 1].content]]

BothWritersDone == \A r \in Requests : writers[r].pc = "done"

\* C26: add_message's append and window trim (read, clear, write back) hold
\* no lock.  Two add_message calls for the same user id that do not overlap
\* leave the last-10 tail of the messages in the order they were added; two
\* calls that overlap can leave a history that is the last-10 tail of
\* neither serial order.
C26_SerialCallsKeepTail ==
    (BothWritersDone /\ \A r \in Requests : ~writers[r].concurrent)
    => chat_history["u1"] = StoredTail(added["u1"])

\* Both calls returned, and the message of the second request is not in the
\* history: the first request read the list before the second pushed, and
\* cleared and rewrote it afterwards.
C26_Witness ==
    /\ BothWritersDone
    /\ \E r \in Requests : writers[r].concurrent
    /\ \A i \in 1..Len(chat_history["u1"]) :
          chat_history["u1"][i].content # WriterContent("r2")
    /\ \A order \in {<<"r1", "r2">>, <<"r2", "r1">>} :
          chat_history["u1"] #
              StoredTail(FullHistory \o
                         [i \in 1..2 |-> [role |-> "user",
                                          content |-> WriterContent(order[i])]])

\* The text has the words of the phrase one after the other, in any case.
Says(text, phrase) ==
    \E i \in 1..(Len(text) - Len(phrase) + 1) :
        \A k \in 1..Len(phrase) :
            text[i + k - 1].text \in {phrase[k], "Hoy"} /\
            (text[i + k - 1].text = "Hoy" => phrase[k] = "hoy")

\* C30 (as stated): against the current date, a text containing "hoy"
\* resolves to today, "pasado manana" to the day after tomorrow and
\* "manana" alone to tomorrow, and an explicit date D-M-Y or D/M/Y,
\* normalized to hyphens, takes precedence over the relative words.
C30_RelativeDates ==
    lastSchedule.op = "_find_date_in_text" =>
        LET text == lastSchedule.text
            today == lastSchedule.today
            result == lastSchedule.result
            written == {i \in 1..Len(text) : text[i].kind = "date"}
        IN IF written # {}
           THEN \E i \in written :
                    /\ result.d = text[i].d /\ result.m = text[i].m
                    /\ result.y = text[i].y /\ result.seps = <<"-", "-">>
           ELSE IF Says(text, <<"hoy">>)
           THEN result = plus_days(today, 0)
           ELSE IF Says(text, <<"pasado", "manana">>)
           THEN result = plus_days(today, 2)
           ELSE IF Says(text, <<"manana">>)
           THEN result = plus_days(today, 1)
           ELSE result.kind = "None"

\* C29: in the Schedule agent the booking endpoint is called only when the
\* question has a scheduling-intent keyword, the should-use-automation check
\* passes (a scheduling keyword, and the patient's data in the history or
\* complete in the message), the availability response lists slots without
\* negative or error phrasing, and the message is not a pure availability
\* inquiry; and then the availability endpoint was called before it in the
\* same turn.
C29_BookingOnlyAfterAvailability ==
    lastSchedule.op = "process_schedule_with_selenium" =>
        LET q == lastSchedule.question
            h == lastSchedule.chat_history
            calls == lastSchedule.calls
            booked == \E i \in 1..Len(calls) : calls[i] = "schedule-request"
            intent == q \cap {"agendar", "cita", "procede", "ahora",
                              "horarios disponibles"} # {}
            automation ==
                /\ q \cap {"agendar", "cita", "ahora", "horarios disponibles"} # {}
                /\ \/ "me llamo ana" \in h /\ ("3001234567" \in h \/ "hoy" \in h)
                   \/ {"me llamo ana", "3001234567", "hoy"} \subseteq q
            confirmed == lastSchedule.available_slots = "Horarios disponibles"
            inquiry == /\ q \cap {"horarios disponibles", "cuando hay"} # {}
                       /\ q \cap {"agendar", "procede"} = {}
        IN /\ booked <=> (intent /\ automation /\ confirmed /\ ~inquiry)
           /\ booked =>
                 \E i, j \in 1..Len(calls) :
                     /\ i < j
                     /\ calls[i] = "check-availability"
                     /\ calls[j] = "schedule-request"
                     /\ \A k \in 1..Len(calls) : calls[k] = "schedule-request" => k = j

\* A turn that asked to book for today with the patient's data in the
\* history: availability was looked up, slots were listed, the booking
\* endpoint was called.
C29_Witness ==
    /\ lastSchedule.op = "process_schedule_with_selenium"
    /\ lastSchedule.question = {"agendar", "cita", "hoy"}
    /\ lastSchedule.calls = <<"availability_agent", "check-availability", "chat_model",
                              "schedule-request">>
    /\ lastSchedule.reply = "slots_and_booking_response"

\* C31: verify_index_health probes the store only when no verdict is cached
\* or the cached verdict is at least health_check_interval seconds old;
\* otherwise it returns the cached verdict and leaves the cache alone, so
\* that a call made within the interval of the probe behind the previous
\* call returns the same snapshot whatever became of the index; after a
\* successful reconstruction the cache is empty and the next call probes.
C31_Fresh(call) ==
    ~call.before.status.known
    \/ call.at - call.before.last_check >= health_check_interval

C31_CachedOrFresh ==
    lastHealth.op = "verify_index_health" =>
        IF C31_Fresh(lastHealth)
        THEN /\ lastHealth.probed
             /\ lastHealth.after = [last_check |-> lastHealth.at,
                                    status |-> lastHealth.status]
             /\ lastHealth.status.index_exists =>
                   lastHealth.status.index_doc_count = lastHealth.index_before.num_docs
        ELSE /\ ~lastHealth.probed
             /\ lastHealth.status = lastHealth.before.status
             /\ lastHealth.after = lastHealth.before

C31_SameSnapshot ==
    /\ lastHealth.op = "verify_index_health"
    /\ lastHealth'.op = "verify_index_health"
    /\ lastHealth' # lastHealth
    /\ lastHealth'.at - lastHealth.after.last_check < health_check_interval
    => /\ lastHealth'.status = lastHealth.status
       /\ ~lastHealth'.probed

C31_ClearedByReconstruction ==
    /\ lastHealth.op \in {"reconstruct_index_from_stored_data", "ensure_index_healthy"}
    /\ lastHealth.reconstruction /\ lastHealth.rv
    => /\ lastHealth.after = EmptyCache
       /\ (lastHealth'.op = "verify_index_health" /\ lastHealth' # lastHealth
              => lastHealth'.probed)

C31_HealthCache ==
    /\ []C31_CachedOrFresh
    /\ [][C31_SameSnapshot]_vars
    /\ [][C31_ClearedByReconstruction]_vars

\* A verdict cached while the index was healthy is returned 29 seconds
\* later although the index has been lost in between.
C31_Witness ==
    /\ lastHealth.op = "verify_index_health"
    /\ lastHealth.at = health_check_interval - 1
    /\ lastHealth.before.last_check = 0
    /\ ~lastHealth.probed
    /\ lastHealth.status.healthy
    /\ ~lastHealth.index_before.exists

\* C32: reconstruct_index_from_stored_data, called directly or by
\* ensure_index_healthy, leaves the chunk records and the document records
\* as they were; with no chunk record under the index namespace it returns
\* false and the index definition is not dropped; with auto-recovery
\* disabled it returns false and nothing is read or changed.
C32_Reconstruction(call) ==
    call.op \in {"reconstruct_index_from_stored_data", "ensure_index_healthy"}
    /\ call.reconstruction

C32_ReturnsFalseUntouched ==
    C32_Reconstruction(lastHealth) =>
        /\ lastHealth.stored_after = lastHealth.stored_before
        /\ lastHealth.stored_before = 0 =>
              /\ ~lastHealth.rv
              /\ ~lastHealth.dropindex
              /\ lastHealth.index_after = lastHealth.index_before
        /\ ~lastHealth.enabled =>
              /\ ~lastHealth.rv
              /\ ~lastHealth.scanned /\ ~lastHealth.dropindex
              /\ lastHealth.index_after = lastHealth.index_before
              /\ lastHealth.op = "reconstruct_index_from_stored_data" =>
                    lastHealth.after = lastHealth.before

C32_RecordsKept ==
    lastHealth' # lastHealth /\ C32_Reconstruction(lastHealth') =>
        /\ stored' = stored
        /\ documents' = documents
        /\ vectors' = vectors

C32_ReconstructFrame ==
    /\ []C32_ReturnsFalseUntouched
    /\ [][C32_RecordsKept]_vars

\* A reconstruction that dropped and recreated the definition of an index
\* that reported no chunk, with every chunk record still there.
C32_Witness ==
    /\ lastHealth.op = "reconstruct_index_from_stored_data"
    /\ lastHealth.rv /\ lastHealth.dropindex
    /\ lastHealth.index_before = [exists |-> TRUE, num_docs |-> 0]
    /\ lastHealth.stored_before = MaxChunks
    /\ stored = MaxChunks
    /\ index = [exists |-> TRUE, num_docs |-> MaxChunks]

\* C33 (as stated): a call of the once-protected add_texts ensures the
\* health of the index before the write when auto-recovery is enabled;
\* when the write fails, exactly one reconstruction and one retry follow;
\* when the retry fails too the exception of the first attempt is raised;
\* the underlying write is attempted at most twice.
C33_ReconstructAndRetryOnce ==
    lastWrite.op = "add_texts" /\ lastWrite.wrappers = 1 =>
        /\ lastWrite.enabled => lastWrite.steps[1] = "ensure_index_healthy"
        /\ 1 \in lastWrite.fails =>
              /\ Count(lastWrite.steps, "reconstruct") = 1
              /\ lastWrite.writes = 2
        /\ {1, 2} \subseteq lastWrite.fails => lastWrite.raised = 1
        /\ lastWrite.writes <= 2

\* What the once-protected add_texts does: the health is ensured before
\* the write exactly when auto-recovery is enabled; after a failed write
\* ensure_index_healthy is called once more, and the write is retried once
\* exactly when that call returned true; a call that fails raises the
\* exception of the first attempt; the write is attempted at most twice.
C33_EnsureThenRetry ==
    lastWrite.op = "add_texts" /\ lastWrite.wrappers = 1 =>
        LET first == CHOOSE i \in 1..Len(lastWrite.steps) :
                        /\ lastWrite.steps[i] = "add_texts"
                        /\ \A k \in 1..(i - 1) : lastWrite.steps[k] # "add_texts"
            after == SubSeq(lastWrite.steps, first + 1, Len(lastWrite.steps))
        IN /\ Count(lastWrite.steps, "add_texts") = lastWrite.writes
           /\ lastWrite.writes \in {1, 2}
           /\ Count(SubSeq(lastWrite.steps, 1, first - 1), "ensure_index_healthy")
                 = IF lastWrite.enabled THEN 1 ELSE 0
           /\ Count(after, "ensure_index_healthy")
                 = IF 1 \in lastWrite.fails THEN 1 ELSE 0
           /\ Count(after, "reconstruct") <= 1
           /\ lastWrite.writes = 2 => 1 \in lastWrite.fails
           /\ lastWrite.raised = (IF 1 \in lastWrite.fails
                                     /\ (lastWrite.writes = 1 \/ 2 \in lastWrite.fails)
                                  THEN 1 ELSE 0)

\* The index is lost within the interval of a healthy verdict: the write
\* fails, no reconstruction is attempted, the retry fails and the call
\* raises.
C33_StaleVerdict ==
    /\ lastWrite.op = "add_texts" /\ lastWrite.wrappers = 1
    /\ lastWrite.enabled
    /\ ~lastWrite.index_before.exists
    /\ lastWrite.cache_before.status.healthy
    /\ lastWrite.steps = <<"ensure_index_healthy", "add_texts", "ensure_index_healthy",
                           "add_texts">>
    /\ lastWrite.raised = 1

\* C34 (as stated): however often apply_protection is applied to the same
\* index service, add_texts carries one wrapper (one health check before
\* the write and at most one retry per call), and remove_protection puts
\* the unwrapped method back.
C34_OneWrapper ==
    /\ protection.add_texts <= 1
    /\ lastWrite.op = "add_texts" /\ lastWrite.wrappers > 0 =>
          /\ lastWrite.writes <= 2
          /\ \E i \in 1..Len(lastWrite.steps) :
                /\ lastWrite.steps[i] = "add_texts"
                /\ Count(SubSeq(lastWrite.steps, 1, i), "ensure_index_healthy")
                      = IF lastWrite.enabled THEN 1 ELSE 0

C34_RemoveRestoresOriginal ==
    protection.original_methods # <<>> /\ protection'.original_methods = <<>> =>
        protection'.add_texts = 0

C34_ApplyIsIdempotent ==
    /\ []C34_OneWrapper
    /\ [][C34_RemoveRestoresOriginal]_vars

\* After two applications a call goes through two wrappers and attempts
\* the write four times.
C34_WrappedTwice ==
    /\ lastWrite.op = "add_texts"
    /\ lastWrite.wrappers = 2
    /\ lastWrite.writes = 4
    /\ lastWrite.raised = 1

\* After two applications and a removal the first wrapper is still on
\* add_texts and nothing is kept to remove it.
C34_StillWrappedAfterRemoval ==
    /\ protection.add_texts = 1
    /\ protection.original_methods = <<>>
    /\ protection.retrievers = 2

\* C35: delayed_initialization makes at most max_attempts = 10 attempts,
\* each attempt that does not end the loop followed by a sleep of 2 s; no
\* exception leaves it; the health-ensure pass runs at most once, on the
\* first attempt that finds the recovery manager, which is also the last
\* attempt; the failure is reported only with the attempt budget used up;
\* and the started thread comes to its end.
C35_Bounded ==
    /\ startup.attempt <= max_attempts
    /\ startup.sleeps <= startup.attempt
    /\ now = 2 * startup.sleeps
    /\ ~startup.raised
    /\ startup.passes <= 1
    /\ startup.passes = 1 =>
          startup.pass_at = startup.found_at /\ startup.found_at = startup.attempt
    /\ startup.found_at > 0 =>
          startup.found_at = startup.attempt /\ startup.pc \in {"left_loop", "done"}
    /\ startup.reported => startup.pc = "done" /\ startup.attempt = max_attempts
    /\ startup.pc = "done" /\ startup.found_at = 0 =>
          startup.reported /\ startup.sleeps = max_attempts

C35_Terminates == startup.pc = "loop" ~> startup.pc = "done"

C35_StartupLoop == []C35_Bounded /\ C35_Terminates

\* The manager appears while the thread polls: it is found on the third
\* attempt, the pass runs on that attempt and nothing is reported.
C35_Witness ==
    /\ startup.pc = "done"
    /\ startup.found_at = 3
    /\ startup.passes = 1 /\ startup.pass_at = 3
    /\ startup.sleeps = 2 /\ now = 4
    /\ ~startup.reported

\* The thread gives up: ten attempts, ten sleeps, the failure reported.
C35_GivesUp ==
    /\ startup.pc = "done"
    /\ startup.attempt = max_attempts
    /\ startup.found_at = 0
    /\ startup.reported
    /\ now = 20

\* C36 (as stated): when the conversations are listed or counted, every
\* user id that has a stored message is counted in total_conversations,
\* and the listed page holds the details of exactly the user ids that fall
\* on it when the ids with messages are cut into pages of page_size.
C36_UsersWithMessages == {u \in Users : chat_history[u] # <<>>}

C36_ListedAndCounted ==
    lastRequest' # lastRequest =>
        /\ lastRequest'.op \in {"list_conversations", "get_conversation_stats"} =>
              lastRequest'.response.total_conversations
                 = Cardinality(C36_UsersWithMessages)
        /\ lastRequest'.op = "list_conversations" =>
              LET r == lastRequest'.response
                  ids == SelectSeq(lastRequest'.order,
                                   LAMBDA u : u \in C36_UsersWithMessages)
                  on_page == {ids[i] : i \in {k \in 1..Len(ids) :
                                 /\ k > (r.page - 1) * r.page_size
                                 /\ k <= r.page * r.page_size}}
              IN /\ {r.conversations[i].user_id : i \in 1..Len(r.conversations)} = on_page
                 /\ Len(r.conversations) = Cardinality(on_page)

C36_EveryConversationListed == [][C36_ListedAndCounted]_vars

\* A user has a stored message and the listing reports no conversation.
C36_StoredButNotListed ==
    /\ lastRequest.op = "list_conversations"
    /\ lastRequest.response.page = 1
    /\ lastRequest.response.total_conversations = 0
    /\ lastRequest.response.conversations = <<>>
    /\ lastAdd.op = "add_message" /\ lastAdd.ok
    /\ chat_history["u1"] # <<>>

\* C37: with the store working, the marker of a message is set by the
\* de-duplication step, which runs before contact-id resolution,
\* orchestration and delivery, and it is still there after the call
\* whatever the outcome; so when a call has ended in a contact error or a
\* delivery error, the same event delivered again less than 3600 s later is
\* ignored as already processed: no orchestration, no delivery, no change
\* of the stored conversation.
C37_Before(call, step, later) ==
    \A i \in StepsAt(call, step), k \in StepsAt(call, later) : i < k

C37_MarkerSetFirst ==
    /\ lastHook.op = "process_incoming_message"
    /\ StepsAt(lastHook, "dedup") # {}
    /\ lastHook.met.dedup_fault = "none"
    => /\ C37_Before(lastHook, "dedup", "contact")
       /\ C37_Before(lastHook, "dedup", "get_response")
       /\ C37_Before(lastHook, "dedup", "send_message")
       /\ processed_message[<<lastHook.data.conversation.id, lastHook.data.message_id>>]
             > lastHook.at

C37_RedeliveryIgnored ==
    /\ events' = events + 1
    /\ lastHook.op = "process_incoming_message"
    /\ lastHook.outcome \in {"contact_error", "send_error"}
    /\ lastHook.data.message_id # 0
    /\ lastHook.met.dedup_fault = "none"
    /\ lastHook'.data = lastHook.data
    /\ lastHook'.met.dedup_fault = "none" /\ ~lastHook'.met.bot_fault
    /\ lastHook'.at - lastHook.at < PROCESSED_MESSAGE_TTL
    => /\ lastHook'.outcome = "already_processed"
       /\ ~lastHook'.orchestrator /\ ~lastHook'.send_called
       /\ outbox' = outbox
       /\ chat_history' = chat_history

C37_MarkerBeforeErrors ==
    /\ []C37_MarkerSetFirst
    /\ [][C37_RedeliveryIgnored]_vars

\* Message 42 was answered at second 0 but the delivery failed; delivered
\* again at second 3599 it is ignored and nothing has been sent.
C37_Witness ==
    /\ events = 2
    /\ lastHook.op = "process_incoming_message"
    /\ lastHook.at = PROCESSED_MESSAGE_TTL - 1
    /\ lastHook.data.message_id = 42
    /\ lastHook.outcome = "already_processed"
    /\ processed_message[<<7, 42>>] = PROCESSED_MESSAGE_TTL
    /\ chat_history["u1"] # <<>>
    /\ outbox = <<>>

(***************************************************************************)
(* C38: after any sequence of successful add_document and delete_document  *)
(* calls, every stored document owns as many chunk records of the index as *)
(* the chunk_count of its document record says.                            *)
(***************************************************************************)
C38_OwnedChunks(doc_id) == Cardinality(find_vectors_by_doc_id(vectors, doc_id))

C38_ChunkCountMatches ==
    \A d \in documents : C38_OwnedChunks(d.doc_id) = d.chunk_count

\* The same content added twice: the record says one chunk, the index holds
\* two chunk records of the document.
C38_ReAddedKeepsOldChunks ==
    /\ lastDoc.op = "add_document"
    /\ ~lastDoc.raised
    /\ lastDoc.replaced # {}
    /\ \E d \in documents :
          /\ d.doc_id = lastDoc.doc_id
          /\ d.chunk_count = lastDoc.chunk_count
          /\ \A old \in lastDoc.replaced : old.chunk_count = d.chunk_count
          /\ C38_OwnedChunks(d.doc_id) = 2 * d.chunk_count
          /\ d.chunk_count > 0

\* A document added under an id that owned no chunk record, and a delete,
\* leave the counts in step.
C38_FirstAddMatches ==
    [][/\ C38_ChunkCountMatches
       /\ \/ lastDoc'.op = "delete_document"
          \/ /\ lastDoc'.op = "add_document"
             /\ lastDoc'.replaced = {}
       => C38_ChunkCountMatches']_vars

(***************************************************************************)
(* C39: every range start - end that _filter_slots_by_duration emits for a *)
(* duration d is covered by available slots: each 30-minute slot that      *)
(* overlaps [start, start + d), i.e. the slots at start, start + 30, ...   *)
(* that begin before start + d, is in the input list; also for durations   *)
(* that are not multiples of 30, such as 45 or 75 minutes.                 *)
(***************************************************************************)
\* The entry starts at a listed time and every later slot it reaches into
\* is listed as well.
C39_Covered(entry, d, given) ==
    LET times == slot_times(given)
        listed == {time_to_minutes(times[i]) : i \in 1..Len(times)}
        start == time_to_minutes(entry.start)
    IN \A k \in 0..((d - 1) \div 30) : (start + 30 * k) % 1440 \in listed

C39_RangesCovered ==
    lastSchedule.op = "_filter_slots_by_duration" =>
        \A j \in 1..Len(lastSchedule.result) :
            C39_Covered(lastSchedule.result[j], lastSchedule.required_duration,
                        lastSchedule.available_slots)

\* For the durations that are multiples of 30, and those below 30, the
\* ranges are covered.
C39_CoveredForWholeSlots ==
    (/\ lastSchedule.op = "_filter_slots_by_duration"
     /\ \/ lastSchedule.required_duration % 30 = 0
        \/ lastSchedule.required_duration < 30)
        => \A j \in 1..Len(lastSchedule.result) :
              C39_Covered(lastSchedule.result[j], lastSchedule.required_duration,
                          lastSchedule.available_slots)

\* 45 minutes offered at 09:00 with 09:30 not available.
C39_UncoveredRange ==
    /\ lastSchedule.op = "_filter_slots_by_duration"
    /\ lastSchedule.available_slots = <<<<9, 0>>, <<10, 0>>>>
    /\ lastSchedule.required_duration = 45
    /\ lastSchedule.result = <<[start |-> <<9, 0>>, end |-> <<9, 45>>],
                               [start |-> <<10, 0>>, end |-> <<10, 45>>]>>

\* 75 minutes offered at 09:00 with 09:00 and 09:30 available and 10:00 not.
C39_UncoveredTail ==
    /\ lastSchedule.op = "_filter_slots_by_duration"
    /\ lastSchedule.available_slots = <<<<9, 0>>, <<9, 30>>>>
    /\ lastSchedule.required_duration = 75
    /\ lastSchedule.result = <<[start |-> <<9, 0>>, end |-> <<10, 15>>]>>

(***************************************************************************)
(* C40: while the index stays in NeedsRecovery (the index reports 0         *)
(* documents and chunk records are stored) with auto-recovery enabled, and *)
(* time advances, repeated calls of ensure_index_healthy eventually invoke *)
(* a reconstruction; only a cached verdict younger than one health-check   *)
(* interval that does not ask for recovery postpones it.                   *)
(***************************************************************************)
C40_NeedsRecovery ==
    /\ index.num_docs = 0
    /\ stored > 0
    /\ auto_recovery_enabled

\* The last ensure_index_healthy call found the index in NeedsRecovery and
\* invoked the reconstruction.
C40_Invoked ==
    /\ lastHealth.op = "ensure_index_healthy"
    /\ lastHealth.enabled
    /\ lastHealth.index_before.num_docs = 0
    /\ lastHealth.stored_before > 0
    /\ lastHealth.reconstruction

\* A call that found the index in NeedsRecovery and did not reconstruct
\* answered from a cached verdict less than one interval old.
C40_PostponedOnlyByFreshVerdict ==
    (/\ lastHealth.op = "ensure_index_healthy"
     /\ lastHealth.enabled
     /\ lastHealth.index_before.num_docs = 0
     /\ lastHealth.stored_before > 0
     /\ ~lastHealth.reconstruction)
        => /\ ~lastHealth.probed
           /\ lastHealth.before.status.known
           /\ ~lastHealth.before.status.needs_recovery
           /\ lastHealth.at - lastHealth.before.last_check < health_check_interval

\* The clock of the model reaches the end of the interval of the cached
\* verdict.
C40_IntervalObserved ==
    health_cache.last_check + health_check_interval
        <= MaxChecks * health_check_interval

C40_EventuallyReconstructs ==
    /\ []C40_PostponedOnlyByFreshVerdict
    /\ (C40_NeedsRecovery /\ C40_IntervalObserved)
          ~> (~C40_NeedsRecovery \/ C40_Invoked)

\* A healthy verdict cached at second 0, the index lost under it, and the
\* first call after the interval reconstructing it.
C40_Witness ==
    /\ C40_Invoked
    /\ lastHealth.before.status.healthy
    /\ lastHealth.before.last_check = 0
    /\ lastHealth.at = health_check_interval
    /\ lastHealth.probed
    /\ lastHealth.rv
    /\ index.num_docs = stored

\* The call one second earlier still answers from the cached verdict.
C40_Postponed ==
    /\ lastHealth.op = "ensure_index_healthy"
    /\ lastHealth.enabled
    /\ lastHealth.index_before.num_docs = 0
    /\ lastHealth.stored_before > 0
    /\ lastHealth.before.status.healthy
    /\ lastHealth.at = lastHealth.before.last_check + health_check_interval - 1
    /\ ~lastHealth.reconstruction

====
